---------------------------- MODULE Spec2Model ----------------------------
(***************************************************************************)
(* EasyTeamClaw: the WebUI provider store (web-config.ts) and the HTTP     *)
(* handlers of webui.ts that read and write it.                            *)
(*                                                                         *)
(* A JavaScript string is a sequence of one-character strings, so that     *)
(* trim() and replace(/\/$/, '') are computed on the characters.  A        *)
(* missing field is Undef, a value of another type is NotAString.          *)
(***************************************************************************)
EXTENDS Naturals, Sequences, FiniteSets, TLC

VARIABLES
    file,        \* data/webui-config.json
    idsMade,     \* how many ids randomId has produced
    refreshing,  \* models/refresh requests suspended in `await fetchModels`
    last,        \* the request handled last and its response
    pure,        \* the value under test of the specification of normalize
    ledger,      \* the messages of chat web:local, in the order they were stored
    chats,       \* the /api/chat requests that passed validation, by arrival
    session,     \* the session id stored for the group folder web
    server       \* the HTTP server and the process: listening, closing, exited

storeVars == <<file, idsMade, refreshing, last>>
chatVars == <<ledger, chats, session>>
vars == <<file, idsMade, refreshing, last, pure, ledger, chats, session, server>>

----------------------------------------------------------------------------
(* Bounds of the model. *)

MaxSlash == 3       \* trailing slashes of a baseUrl given in a request
MaxGen == 1         \* ids randomId may produce
MaxInflight == 1    \* models/refresh requests suspended at once
MaxRaw == 2         \* provider records of an aggregate given to normalize
MaxChats == 2       \* /api/chat requests that pass validation
MaxFragments == 3   \* output events of a run whose reply is computed
MaxEvents == 1      \* outputs one container run streams

----------------------------------------------------------------------------
(* Values. *)

Undef == <<"undefined">>
NotAString == <<"number">>
IsString(x) == x # Undef /\ x # NotAString

\* Array.isArray(x) is false for this value of a models field.
NoArray == <<Undef>>
IsArray(x) == x # NoArray

DEFAULT_ANTHROPIC_BASE == <<"https://api.anthropic.com">>
DEFAULT_DEEPSEEK_BASE == <<"https://api.deepseek.com">>
DEFAULT_KIMI_BASE == <<"https://api.moonshot.cn">>
DEFAULT_GLM_BASE == <<"https://open.bigmodel.cn">>

\* randomId: the n-th id produced.
randomId(n) == <<"provider-gen", ToString(n)>>

RECURSIVE TrimLeft(_)
TrimLeft(s) == IF s # <<>> /\ Head(s) = " " THEN TrimLeft(Tail(s)) ELSE s

RECURSIVE TrimRight(_)
TrimRight(s) ==
    IF s # <<>> /\ s[Len(s)] = " " THEN TrimRight(SubSeq(s, 1, Len(s) - 1)) ELSE s

\* String.prototype.trim
Trim(s) == TrimRight(TrimLeft(s))

\* s.replace(/\/$/, ''): one slash at the end of the string is removed.
StripSlash(s) ==
    IF s # <<>> /\ s[Len(s)] = "/" THEN SubSeq(s, 1, Len(s) - 1) ELSE s

\* models.filter(m => typeof m === 'string' && m.trim().length > 0)
FilterModels(ms) ==
    IF IsArray(ms) THEN SelectSeq(ms, LAMBDA m : IsString(m) /\ Trim(m) # <<>>)
    ELSE <<>>

----------------------------------------------------------------------------
(* web-config.ts *)

\* nowIso: the time of the request being handled.  Every stamp taken while the
\* server runs is <<"now">>; the stamps found in the initial file are <<"t0">>,
\* an earlier time.
nowIso == <<"now">>

\* typeof input.createdAt === 'string' ? input.createdAt : stamp; a record
\* without the field reads undefined.
createdAtOf(input) ==
    IF "createdAt" \in DOMAIN input /\ IsString(input.createdAt)
    THEN input.createdAt ELSE nowIso

\* toProviderConfig, testing only name and baseUrl before it returns null.
toProviderConfigIgnoresKey(input, fresh) ==
    LET type == IF input.type = "openai-compatible" THEN "openai-compatible"
                ELSE "claude"
        name == IF IsString(input.name) THEN Trim(input.name) ELSE <<>>
        baseUrl ==
            IF IsString(input.baseUrl) /\ Len(Trim(input.baseUrl)) > 0
            THEN StripSlash(Trim(input.baseUrl))
            ELSE IF type = "claude" THEN DEFAULT_ANTHROPIC_BASE ELSE <<>>
        models == FilterModels(input.models)
    IN  IF name = <<>> \/ baseUrl = <<>> THEN <<>>
        ELSE << [id |-> IF IsString(input.id) THEN input.id ELSE fresh,
                 name |-> name, type |-> type, baseUrl |-> baseUrl,
                 apiKey |-> IF IsString(input.apiKey) THEN Trim(input.apiKey) ELSE <<>>,
                 enabled |-> (IF input.enabled = "false" THEN "false" ELSE "true"),
                 models |-> models,
                 defaultModel |->
                    IF IsString(input.defaultModel) /\ Len(Trim(input.defaultModel)) > 0
                    THEN Trim(input.defaultModel)
                    ELSE IF models # <<>> THEN models[1] ELSE Undef,
                 createdAt |-> createdAtOf(input), updatedAt |-> nowIso] >>

\* toProviderConfig, leaving defaultModel unset when the input gives none.
toProviderConfigNoFallback(input, fresh) ==
    LET type == IF input.type = "openai-compatible" THEN "openai-compatible"
                ELSE "claude"
        name == IF IsString(input.name) THEN Trim(input.name) ELSE <<>>
        baseUrl ==
            IF IsString(input.baseUrl) /\ Len(Trim(input.baseUrl)) > 0
            THEN StripSlash(Trim(input.baseUrl))
            ELSE IF type = "claude" THEN DEFAULT_ANTHROPIC_BASE ELSE <<>>
        apiKey == IF IsString(input.apiKey) THEN Trim(input.apiKey) ELSE <<>>
    IN  IF name = <<>> \/ baseUrl = <<>> \/ apiKey = <<>> THEN <<>>
        ELSE << [id |-> IF IsString(input.id) THEN input.id ELSE fresh,
                 name |-> name, type |-> type, baseUrl |-> baseUrl, apiKey |-> apiKey,
                 enabled |-> (IF input.enabled = "false" THEN "false" ELSE "true"),
                 models |-> FilterModels(input.models),
                 defaultModel |->
                    IF IsString(input.defaultModel) /\ Len(Trim(input.defaultModel)) > 0
                    THEN Trim(input.defaultModel) ELSE Undef,
                 createdAt |-> createdAtOf(input), updatedAt |-> nowIso] >>

\* toProviderConfig: <<>> for null, <<p>> for a provider.  fresh is the id
\* randomId returns when the input has no string id.
toProviderConfig(input, fresh) ==
    LET id == IF IsString(input.id) THEN input.id ELSE fresh
        name == IF IsString(input.name) THEN Trim(input.name) ELSE <<>>
        type == IF input.type = "openai-compatible" THEN "openai-compatible"
                ELSE "claude"
        baseUrl ==
            IF IsString(input.baseUrl) /\ Len(Trim(input.baseUrl)) > 0
            THEN StripSlash(Trim(input.baseUrl))
            ELSE IF type = "claude" THEN DEFAULT_ANTHROPIC_BASE ELSE <<>>
        apiKey == IF IsString(input.apiKey) THEN Trim(input.apiKey) ELSE <<>>
        models == FilterModels(input.models)
        defaultModel ==
            IF IsString(input.defaultModel) /\ Len(Trim(input.defaultModel)) > 0
            THEN Trim(input.defaultModel)
            ELSE IF models # <<>> THEN models[1] ELSE Undef
    IN  IF name = <<>> \/ baseUrl = <<>> \/ apiKey = <<>> THEN <<>>
        ELSE << [id |-> id, name |-> name, type |-> type, baseUrl |-> baseUrl,
                 apiKey |-> apiKey,
                 enabled |-> (IF input.enabled = "false" THEN "false" ELSE "true"),
                 models |-> models, defaultModel |-> defaultModel,
                 createdAt |-> createdAtOf(input), updatedAt |-> nowIso] >>

\* How many of the first k inputs make toProviderConfig call randomId.
RECURSIVE IdlessBefore(_, _)
IdlessBefore(ps, k) ==
    IF k = 0 THEN 0
    ELSE IdlessBefore(ps, k - 1) + (IF IsString(ps[k].id) THEN 0 ELSE 1)

\* providersInput.map(toProviderConfig).filter(p => p !== null); n ids were
\* produced before the call.
RECURSIVE MapProviders(_, _, _)
MapProviders(ps, k, n) ==
    IF k = 0 THEN <<>>
    ELSE MapProviders(ps, k - 1, n)
         \o toProviderConfig(ps[k], randomId(n + IdlessBefore(ps, k)))

HasId(providers, id) == \E i \in 1..Len(providers) : providers[i].id = id

\* normalize, keeping the defaultProviderId it is given.
normalizeKeepsDefault(config, n) ==
    [assistantName |->
        IF IsString(config.assistantName) /\ Len(Trim(config.assistantName)) > 0
        THEN Trim(config.assistantName) ELSE Undef,
     defaultProviderId |->
        IF IsString(config.defaultProviderId) THEN config.defaultProviderId ELSE Undef,
     providers |-> MapProviders(config.providers, Len(config.providers), n)]

\* normalize
normalize(config, n) ==
    LET assistantName ==
            IF IsString(config.assistantName) /\ Len(Trim(config.assistantName)) > 0
            THEN Trim(config.assistantName) ELSE Undef
        providers == MapProviders(config.providers, Len(config.providers), n)
        given == IF IsString(config.defaultProviderId) THEN config.defaultProviderId
                 ELSE Undef
        defaultProviderId ==
            IF given = Undef \/ given = <<>> \/ ~HasId(providers, given)
            THEN (IF providers # <<>> THEN providers[1].id ELSE Undef)
            ELSE given
    IN  [assistantName |-> assistantName, defaultProviderId |-> defaultProviderId,
         providers |-> providers]

\* The ids a normalize pass over config makes randomId produce.
IdsUsed(config) == IdlessBefore(config.providers, Len(config.providers))

EmptyConfig == [assistantName |-> Undef, defaultProviderId |-> Undef, providers |-> <<>>]

\* The try of readWebUiConfig throws: JSON.parse rejects the content
\* ("garbage"), or normalize reads a property of null, the content being null
\* ("null") or an object whose provider list holds null besides the entries of
\* cfg ("nullentry").
ReadThrows(f) == f.kind \in {"garbage", "null", "nullentry"}

\* readWebUiConfig, returning what JSON.parse returned.
readWebUiConfigUnnormalized(f, n) ==
    IF f.kind = "absent" \/ ReadThrows(f) THEN EmptyConfig ELSE f.cfg

\* readWebUiConfig: the file is absent, its content makes the try throw, is a
\* number, a string or a boolean ("scalar", every field of which is
\* undefined), or is an object ("json").
readWebUiConfig(f, n) ==
    IF f.kind = "absent" \/ ReadThrows(f) THEN EmptyConfig
    ELSE IF f.kind = "scalar" THEN normalize(EmptyConfig, n)
    ELSE normalize(f.cfg, n)

\* What writeWebUiConfig and updateWebUiConfig leave in the file.
Written(config) == [kind |-> "json", byProgram |-> TRUE, cfg |-> config]

\* writeWebUiConfig
writeWebUiConfig(config, n) == Written(normalize(config, n))

\* getProviderById: <<>> for undefined, <<p>> for a provider.
getProviderById(config, providerId) ==
    LET id == IF providerId = Undef \/ providerId = <<>>
              THEN config.defaultProviderId ELSE providerId
    IN  IF id = Undef \/ id = <<>> THEN <<>>
        ELSE LET found == SelectSeq(config.providers, LAMBDA p : p.id = id)
             IN  IF found = <<>> THEN <<>> ELSE <<found[1]>>

PresetIds ==
    << <<"anthropic-default">>, <<"deepseek-default">>, <<"kimi-default">>,
       <<"glm-default">> >>

\* createPresetProviders
createPresetProviders ==
    << [id |-> PresetIds[1], name |-> <<"Anthropic Claude">>, type |-> "claude",
        baseUrl |-> DEFAULT_ANTHROPIC_BASE, apiKey |-> <<>>, enabled |-> "true",
        models |-> <<>>, defaultModel |-> Undef],
       [id |-> PresetIds[2], name |-> <<"DeepSeek">>, type |-> "openai-compatible",
        baseUrl |-> DEFAULT_DEEPSEEK_BASE, apiKey |-> <<>>, enabled |-> "false",
        models |-> <<>>, defaultModel |-> Undef],
       [id |-> PresetIds[3], name |-> <<"Kimi (Moonshot)">>, type |-> "openai-compatible",
        baseUrl |-> DEFAULT_KIMI_BASE, apiKey |-> <<>>, enabled |-> "false",
        models |-> <<>>, defaultModel |-> Undef],
       [id |-> PresetIds[4], name |-> <<"GLM">>, type |-> "openai-compatible",
        baseUrl |-> DEFAULT_GLM_BASE, apiKey |-> <<>>, enabled |-> "false",
        models |-> <<>>, defaultModel |-> Undef] >>

----------------------------------------------------------------------------
(* webui.ts *)

\* sanitizeProvider
sanitizeProvider(input, fresh) ==
    [id |-> IF IsString(input.id) /\ input.id # <<>> THEN input.id ELSE fresh,
     name |-> IF IsString(input.name) THEN Trim(input.name) ELSE <<"Provider">>,
     type |-> IF input.type = "openai-compatible" THEN "openai-compatible" ELSE "claude",
     baseUrl |-> IF IsString(input.baseUrl) THEN StripSlash(Trim(input.baseUrl)) ELSE <<>>,
     apiKey |-> IF IsString(input.apiKey) THEN Trim(input.apiKey) ELSE <<>>,
     enabled |-> IF input.enabled = "false" THEN "false" ELSE "true",
     models |-> FilterModels(input.models),
     defaultModel |->
        IF IsString(input.defaultModel) /\ Len(Trim(input.defaultModel)) > 0
        THEN Trim(input.defaultModel) ELSE Undef,
     createdAt |-> createdAtOf(input), updatedAt |-> nowIso]

\* Whether sanitizeProvider calls randomId for this input.
NeedsId(input) == ~(IsString(input.id) /\ input.id # <<>>)

IndexOf(providers, id) ==
    IF HasId(providers, id)
    THEN CHOOSE i \in 1..Len(providers) :
            providers[i].id = id /\ \A j \in 1..(i - 1) : providers[j].id # id
    ELSE 0

\* The handler of POST /api/providers/bootstrap: the aggregate it hands to
\* writeWebUiConfig.
BootstrapMerged(cfg) ==
    LET presets == [i \in 1..Len(createPresetProviders) |->
                        sanitizeProvider(createPresetProviders[i], Undef)]
        missing == SelectSeq(presets, LAMBDA q : ~HasId(cfg.providers, q.id))
    IN  [cfg EXCEPT !.providers = cfg.providers \o missing,
                    !.defaultProviderId =
                        IF cfg.defaultProviderId = Undef \/ cfg.defaultProviderId = <<>>
                        THEN PresetIds[1] ELSE cfg.defaultProviderId]

\* The apiKey the upsert mutator stores for a provider that exists.
UpsertApiKey(payload, provider, prev) ==
    IF IsString(payload.apiKey) /\ Len(Trim(payload.apiKey)) > 0
    THEN provider.apiKey ELSE prev.apiKey

\* The mutator of POST /api/providers/upsert.
UpsertMutator(current, payload, provider) ==
    LET idx == IndexOf(current.providers, provider.id)
        providers ==
            IF idx > 0
            THEN [current.providers EXCEPT ![idx] =
                     [provider EXCEPT !.apiKey =
                         UpsertApiKey(payload, provider, current.providers[idx])]]
            ELSE Append(current.providers, provider)
    IN  [current EXCEPT !.providers = providers,
                        !.defaultProviderId =
                            IF current.defaultProviderId = Undef
                               \/ current.defaultProviderId = <<>>
                            THEN provider.id ELSE current.defaultProviderId]

\* The delete mutator, reassigning the default without removing the provider.
DeleteMutatorKeepsProvider(current, id) ==
    [current EXCEPT !.defaultProviderId =
        IF current.defaultProviderId = id
        THEN (IF current.providers # <<>> THEN current.providers[1].id ELSE Undef)
        ELSE current.defaultProviderId]

\* The mutator of POST /api/providers/delete.
DeleteMutator(current, id) ==
    LET providers == SelectSeq(current.providers, LAMBDA p : p.id # id)
    IN  [current EXCEPT !.providers = providers,
                        !.defaultProviderId =
                            IF current.defaultProviderId = id
                               \/ ~HasId(providers, current.defaultProviderId)
                            THEN (IF providers # <<>> THEN providers[1].id ELSE Undef)
                            ELSE current.defaultProviderId]

\* The mutator of POST /api/providers/set-default, for an id it finds.
SetDefaultMutator(current, id) == [current EXCEPT !.defaultProviderId = id]

\* The refresh mutator, storing the provider as it was read before the await.
RefreshMutatorWritesSnapshot(current, provider, models) ==
    LET idx == IndexOf(current.providers, provider.id)
    IN  IF idx > 0
        THEN [current EXCEPT !.providers[idx] =
                [@ EXCEPT !.type = provider.type, !.baseUrl = provider.baseUrl,
                          !.apiKey = provider.apiKey, !.models = models,
                          !.defaultModel = IF @ = Undef /\ models # <<>>
                                           THEN models[1] ELSE @]]
        ELSE current

\* The mutator of POST /api/providers/models/refresh; provider is the one read
\* before fetchModels was awaited.
RefreshMutator(current, provider, models) ==
    LET idx == IndexOf(current.providers, provider.id)
    IN  IF idx > 0
        THEN [current EXCEPT !.providers[idx].models = models,
                             !.providers[idx].defaultModel =
                                 IF (@ = Undef \/ @ = <<>>) /\ models # <<>>
                                 THEN models[1] ELSE @]
        ELSE current

\* updateWebUiConfig, from the mutator's result on: normalize and write.  The
\* function runs to its end without an await: its read, the mutator and the
\* write are one step of the event loop.
updateWebUiConfig(mutated, n) == Written(normalize(mutated, n))

\* The code-unit order of the characters the model uses.
Alphabet == <<" ", "/", "j", "k", "m", "n", "u", "z">>
Rank(c) == CHOOSE i \in 1..Len(Alphabet) : Alphabet[i] = c

\* a < b as Array.prototype.sort compares strings.
RECURSIVE StrLess(_, _)
StrLess(a, b) ==
    IF a = <<>> THEN b # <<>>
    ELSE IF b = <<>> THEN FALSE
    ELSE IF Head(a) = Head(b) THEN StrLess(Tail(a), Tail(b))
    ELSE Rank(Head(a)) < Rank(Head(b))

\* Array.from(new Set(list)).sort()
RECURSIVE SortSet(_)
SortSet(S) ==
    IF S = {} THEN <<>>
    ELSE LET least == CHOOSE x \in S : \A y \in S \ {x} : StrLess(x, y)
         IN  <<least>> \o SortSet(S \ {least})

\* The error of fetchModels without the status of the response.
fetchModelsErrorNoStatus(resp) ==
    <<"model_fetch_failed:">>
        \o SubSeq(resp.text, 1, IF Len(resp.text) < 180 THEN Len(resp.text) ELSE 180)

\* The message of the error fetchModels throws for an unsuccessful response.
fetchModelsError(resp) ==
    <<"model_fetch_failed:", resp.status, ":">>
        \o SubSeq(resp.text, 1, IF Len(resp.text) < 180 THEN Len(resp.text) ELSE 180)

\* fetchModels, from a successful upstream response on.  m.id || m.name || ''
\* takes a value that is no string as it is, and the filter on m.length
\* drops it.
fetchModels(resp) ==
    LET entries == IF resp.hasData THEN resp.data ELSE resp.models
        named == [i \in 1..Len(entries) |->
                    IF entries[i].id # Undef /\ entries[i].id # <<>> THEN entries[i].id
                    ELSE IF entries[i].name # Undef /\ entries[i].name # <<>>
                    THEN entries[i].name ELSE <<>>]
        list == SelectSeq(named, LAMBDA m : m # NotAString /\ Len(m) > 0)
    IN  SortSet({list[i] : i \in 1..Len(list)})

----------------------------------------------------------------------------
(* The requests the model sends. *)

Slashes(k) == [i \in 1..k |-> "/"]

\* baseUrl values: absent, blank, a host followed by 0..MaxSlash slashes,
\* slashes alone.
BaseUrlInputs ==
    {Undef, <<" ">>}
        \cup {<<"u">> \o Slashes(k) : k \in 0..MaxSlash}
        \cup {Slashes(k) : k \in 1..MaxSlash}

ApiKeyInputs == {Undef, NotAString, <<" ">>, <<" ", "j">>}

UserId == <<"p">>

\* The payload of a complete upsert request for the provider id.
BasePayload(id) ==
    [id |-> id, name |-> <<"n">>, type |-> "openai-compatible", baseUrl |-> <<"u">>,
     apiKey |-> <<"k">>, enabled |-> "undefined", models |-> NoArray,
     defaultModel |-> Undef]

\* Upsert payloads: each set varies the fields of one concern of the base
\* payload.
UrlPayloads(id) ==
    {[BasePayload(id) EXCEPT !.baseUrl = b] : b \in BaseUrlInputs}
        \cup {[BasePayload(id) EXCEPT !.baseUrl = Slashes(k), !.apiKey = Undef] :
                k \in 1..MaxSlash}
KeyPayloads(id) == {[BasePayload(id) EXCEPT !.apiKey = a] : a \in ApiKeyInputs}
ShapePayloads(id) ==
    {[BasePayload(id) EXCEPT !.name = Undef, !.type = "claude"],
     [BasePayload(id) EXCEPT !.name = <<" ">>],
     [BasePayload(id) EXCEPT !.type = "claude", !.baseUrl = Undef],
     [BasePayload(id) EXCEPT !.enabled = "false", !.apiKey = Undef]}
ModelPayloads(id) ==
    {[BasePayload(id) EXCEPT !.models = ms, !.defaultModel = d, !.apiKey = Undef] :
        ms \in {NoArray, << <<"n">>, <<" ">>, <<"m">> >>},
        d \in {Undef, <<"z", " ">>}}

\* The requests of the specification of the store: complete payloads for a
\* chosen id and for the first preset id, and one that changes the apiKey.
StorePayloads ==
    {BasePayload(UserId), BasePayload(PresetIds[1]),
     [BasePayload(UserId) EXCEPT !.apiKey = <<" ", "j">>]}

\* The ids of its delete, set-default and models/refresh requests.
StoreIds == {Undef, UserId, PresetIds[1], <<"x">>}

\* The requests of the specification of one provider's fields.
FieldPayloads ==
    UrlPayloads(UserId) \cup KeyPayloads(UserId) \cup ShapePayloads(UserId)
FieldIds == {<<>>, UserId}

\* The requests of the specification of one provider's models.
ModelRequests == {BasePayload(UserId)} \cup ModelPayloads(UserId)

\* The requests of the specification of generated ids: upserts without a usable
\* id, and requests for the ids randomId produced.
IdPayloads == {BasePayload(Undef), BasePayload(<<>>), BasePayload(NotAString)}
GeneratedIds == {Undef} \cup {randomId(k) : k \in 1..MaxGen}

Entry(id, name) == [id |-> id, name |-> name]

\* Upstream answers to GET /v1/models.
Responses ==
    {[ok |-> FALSE, status |-> "503", text |-> <<"e">>, hasData |-> FALSE,
      data |-> <<>>, models |-> <<>>],
     [ok |-> TRUE, status |-> "200", text |-> <<>>, hasData |-> TRUE,
      data |-> <<Entry(<<"n">>, Undef), Entry(<<>>, <<"m">>), Entry(<<"n">>, <<"z">>)>>,
      models |-> <<>>],
     [ok |-> TRUE, status |-> "200", text |-> <<>>, hasData |-> FALSE, data |-> <<>>,
      models |-> <<Entry(Undef, <<>>)>>],
     [ok |-> TRUE, status |-> "200", text |-> <<>>, hasData |-> FALSE, data |-> <<>>,
      models |-> <<Entry(<<"n">>, Undef), Entry(<<" ">>, Undef),
                   Entry(NotAString, <<"z">>), Entry(Undef, <<"m">>)>>]}

\* Files found at startup: none, one JSON.parse rejects, and aggregates that were
\* not written by this program.
RawProvider(id, apiKey, baseUrl) ==
    [BasePayload(id) EXCEPT !.apiKey = apiKey, !.baseUrl = baseUrl]
        @@ [createdAt |-> <<"t0">>]
InitialFiles ==
    {[kind |-> "absent", byProgram |-> FALSE, cfg |-> EmptyConfig],
     [kind |-> "garbage", byProgram |-> FALSE, cfg |-> EmptyConfig],
     [kind |-> "json", byProgram |-> FALSE,
      cfg |-> [assistantName |-> <<" ">>, defaultProviderId |-> <<"x">>,
               providers |-> <<RawProvider(UserId, <<>>, <<"u">>),
                               RawProvider(PresetIds[1], <<"k">>, <<"u">>)>>]]}

----------------------------------------------------------------------------
(* The server. *)

\* The response to a request, and what the handler saw: wasDefault, the deleted
\* error, the error of the response; models, the models of a models/refresh
\* response; body, the body of a GET response; id was the default; keyGiven and key, the upsert payload held a non-blank
\* apiKey, trimmed to key; raced, the provider a refresh had read was changed or
\* removed while fetchModels was awaited.
Answer(op, status, id) ==
    [op |-> op, status |-> status, id |-> id, wasDefault |-> FALSE,
     keyGiven |-> FALSE, key |-> <<>>, raced |-> FALSE, error |-> Undef,
     models |-> <<>>, body |-> <<>>, delivered |-> TRUE]

\* The server from server.listen on, until a signal: no exit code yet; waited,
\* requests were in flight when the signal came.
Listening == [state |-> "listening", code |-> "none", waited |-> FALSE]

Serving == last.op # "boot" /\ server.state = "listening"

current == readWebUiConfig(file, idsMade)

\* main: ensurePresetProviders, then the server listens.
EnsurePresetProviders ==
    /\ last.op = "boot"
    /\ file' = IF current.providers # <<>> THEN file
               ELSE writeWebUiConfig(
                        [current EXCEPT
                            !.providers = [i \in 1..Len(createPresetProviders) |->
                                sanitizeProvider(createPresetProviders[i], Undef)],
                            !.defaultProviderId = PresetIds[1]], idsMade)
    /\ last' = Answer("listen", 0, Undef)
    /\ UNCHANGED <<idsMade, refreshing, pure, server, ledger, chats, session>>

\* POST /api/providers/bootstrap
Bootstrap ==
    /\ Serving
    /\ file' = writeWebUiConfig(BootstrapMerged(current), idsMade)
    /\ last' = Answer("bootstrap", 200, Undef)
    /\ UNCHANGED <<idsMade, refreshing, pure, server, ledger, chats, session>>

\* POST /api/providers/upsert, from the end of readJsonBody on.
Upsert(payload) ==
    LET made == IF NeedsId(payload) THEN idsMade + 1 ELSE idsMade
        provider == sanitizeProvider(payload, randomId(made))
        existing == getProviderById(current, provider.id)
        keyGiven == IsString(payload.apiKey) /\ Len(Trim(payload.apiKey)) > 0
    IN  /\ Serving
        /\ made <= MaxGen
        /\ idsMade' = made
        /\ IF \/ provider.name = <<>>
              \/ provider.baseUrl = <<>>
              \/ (provider.apiKey = <<>> /\ (existing = <<>> \/ existing[1].apiKey = <<>>))
           THEN /\ file' = file
                /\ last' = Answer("upsert", 400, provider.id)
           ELSE /\ file' = updateWebUiConfig(UpsertMutator(current, payload, provider), made)
                /\ last' = [Answer("upsert", 200, provider.id) EXCEPT
                                !.keyGiven = keyGiven,
                                !.key = IF keyGiven THEN Trim(payload.apiKey) ELSE <<>>]
        /\ UNCHANGED <<refreshing, pure, server, ledger, chats, session>>

\* POST /api/providers/delete
Delete(id) ==
    /\ Serving
    /\ IF id = Undef \/ id = <<>>
       THEN /\ file' = file
            /\ last' = Answer("delete", 400, id)
       ELSE /\ file' = updateWebUiConfig(DeleteMutator(current, id), idsMade)
            /\ last' = [Answer("delete", 200, id) EXCEPT
                            !.wasDefault = (current.defaultProviderId = id)]
    /\ UNCHANGED <<idsMade, refreshing, pure, server, ledger, chats, session>>

\* POST /api/providers/set-default
SetDefault(id) ==
    /\ Serving
    /\ IF id = Undef \/ id = <<>>
       THEN /\ file' = file
            /\ last' = Answer("set-default", 400, id)
       ELSE IF ~HasId(current.providers, id)
       THEN /\ file' = file
            /\ last' = Answer("set-default", 404, id)
       ELSE /\ file' = updateWebUiConfig(SetDefaultMutator(current, id), idsMade)
            /\ last' = Answer("set-default", 200, id)
    /\ UNCHANGED <<idsMade, refreshing, pure, server, ledger, chats, session>>

\* What fetchModels and the code after it read of the provider a models/refresh
\* request found.
Fetched(provider) ==
    [id |-> provider.id, type |-> provider.type, baseUrl |-> provider.baseUrl,
     apiKey |-> provider.apiKey]

\* POST /api/providers/models/refresh, up to `await fetchModels(provider)`.
RefreshStart(id) ==
    LET provider == getProviderById(current, id)
    IN  /\ Serving
        /\ Len(refreshing) < MaxInflight
        /\ IF provider = <<>>
           THEN /\ refreshing' = refreshing
                /\ last' = Answer("refresh", 404, id)
           ELSE IF provider[1].apiKey = <<>> \/ provider[1].baseUrl = <<>>
           THEN /\ refreshing' = refreshing
                /\ last' = Answer("refresh", 400, id)
           ELSE /\ refreshing' = Append(refreshing, Fetched(provider[1]))
                /\ last' = Answer("refresh-sent", 0, provider[1].id)
        /\ UNCHANGED <<file, idsMade, pure, server, ledger, chats, session>>

Without(seq, i) == SubSeq(seq, 1, i - 1) \o SubSeq(seq, i + 1, Len(seq))

\* models/refresh, after fetchModels returned a list.
RefreshDone(i, resp) ==
    /\ resp.ok
    /\ file' = updateWebUiConfig(
                  RefreshMutator(current, refreshing[i], fetchModels(resp)), idsMade)
    /\ last' = [Answer("refresh", 200, refreshing[i].id) EXCEPT
                    !.models = fetchModels(resp),
                    !.raced =
                        LET now == getProviderById(current, refreshing[i].id)
                        IN  now = <<>> \/ Fetched(now[1]) # refreshing[i]]
    /\ refreshing' = Without(refreshing, i)
    /\ UNCHANGED <<idsMade, pure, server, ledger, chats, session>>

\* models/refresh, after fetchModels threw model_fetch_failed.
RefreshFail(i, resp) ==
    /\ ~resp.ok
    /\ last' = [Answer("refresh", 500, refreshing[i].id) EXCEPT
                    !.error = fetchModelsError(resp)]
    /\ refreshing' = Without(refreshing, i)
    /\ UNCHANGED <<file, idsMade, pure, server, ledger, chats, session>>

\* The listing of GET /api/providers, not masking the keys.
ProvidersResponseUnmasked(cfg) ==
    [defaultProviderId |-> IF cfg.defaultProviderId = Undef \/ cfg.defaultProviderId = <<>>
                           THEN <<"null">> ELSE cfg.defaultProviderId,
     providers |-> cfg.providers]

\* The body of the response of GET /api/providers for the aggregate cfg.
ProvidersResponse(cfg) ==
    [defaultProviderId |-> IF cfg.defaultProviderId = Undef \/ cfg.defaultProviderId = <<>>
                           THEN <<"null">> ELSE cfg.defaultProviderId,
     providers |-> [i \in DOMAIN cfg.providers |->
                       [cfg.providers[i] EXCEPT
                           !.apiKey = IF @ # <<>> THEN <<"***">> ELSE <<>>]]]

\* GET /api/providers
ListProviders ==
    /\ Serving
    /\ last' = [Answer("providers", 200, Undef) EXCEPT
                   !.body = <<ProvidersResponse(current)>>]
    /\ UNCHANGED <<file, idsMade, refreshing, pure, server, ledger, chats, session>>

\* The cap of readJsonBody on the length of a request body, 1024 * 1024.
BodyCap == 1048576

\* The bodies of the POST requests: length, the length of what was received
\* when the listener of 'data' last tested it; parses, JSON.parse accepts the
\* body; pending, the client had more of the body to send at that time.
RawBodies ==
    {[length |-> n, parses |-> ok, pending |-> more] :
        n \in {2, BodyCap, BodyCap + 1}, ok \in BOOLEAN, more \in BOOLEAN}

\* readJsonBody: the error it rejects with, Undef when it resolves; destroyed,
\* req.destroy() has closed the socket of a request that was still being read.
readJsonBody(raw) ==
    IF raw.length > BodyCap
    THEN [error |-> <<"payload_too_large">>, destroyed |-> raw.pending]
    ELSE IF ~raw.parses THEN [error |-> <<"invalid_json">>, destroyed |-> FALSE]
    ELSE [error |-> Undef, destroyed |-> FALSE]

\* The catch of the request listener: the status it answers the error with.
ErrorStatus(message) ==
    IF message = <<"invalid_json">> THEN 400
    ELSE IF message = <<"payload_too_large">> THEN 413
    ELSE IF message = <<"provider_not_found">> THEN 404
    ELSE 500

\* A POST request whose body readJsonBody rejects.  The response reaches the
\* client when the socket was not destroyed.
BodyRejected(raw) ==
    LET read == readJsonBody(raw)
    IN  /\ Serving
        /\ read.error # Undef
        /\ last' = [Answer("body", ErrorStatus(read.error), Undef) EXCEPT
                       !.error = read.error,
                       !.body = <<raw>>,
                       !.delivered = ~read.destroyed]
        /\ UNCHANGED <<file, idsMade, refreshing, pure, server, ledger, chats, session>>

\* A POST request whose body is the JSON text null: the handler reads a
\* property of null, and the catch of the request listener answers the
\* TypeError with its message, or with internal_error when it has none.
NullBody ==
    LET message == <<"Cannot read properties of null">>
    IN  /\ Serving
        /\ last' = [Answer("null-body", ErrorStatus(message), Undef) EXCEPT
                       !.error = IF message # <<>> THEN message
                                 ELSE <<"internal_error">>]
        /\ UNCHANGED <<file, idsMade, refreshing, pure, server, ledger, chats, session>>

PureIdle == [pc |-> "idle"]

Init ==
    /\ file \in InitialFiles
    /\ idsMade = 0
    /\ server = Listening
    /\ refreshing = <<>>
    /\ last = Answer("boot", 0, Undef)
    /\ pure = PureIdle
    /\ ledger = <<>>
    /\ chats = <<>>
    /\ session = Undef

Requests(payloads, ids) ==
    \/ Bootstrap
    \/ \E payload \in payloads : Upsert(payload)
    \/ \E id \in ids : Delete(id)
    \/ \E id \in ids : SetDefault(id)
    \/ \E id \in ids : RefreshStart(id)
    \/ \E i \in 1..Len(refreshing), resp \in Responses : RefreshDone(i, resp)
    \/ \E i \in 1..Len(refreshing), resp \in Responses : RefreshFail(i, resp)

Next == EnsurePresetProviders \/ Requests(StorePayloads, StoreIds)

NextFields == EnsurePresetProviders \/ Requests(FieldPayloads, FieldIds)

Spec == Init /\ [][Next]_vars

SpecFields == Init /\ [][NextFields]_vars

NextModels == EnsurePresetProviders \/ Requests(ModelRequests, FieldIds)

SpecModels == Init /\ [][NextModels]_vars

NextIds == EnsurePresetProviders \/ Requests(IdPayloads, GeneratedIds)

SpecIds == Init /\ [][NextIds]_vars

\* The requests of the specification of the agent backend's provider: upserts
\* of the id "c" with type claude and no baseUrl, complete ones of UserId.
AgentPayloads ==
    {BasePayload(UserId)}
        \cup {[BasePayload(<<"c">>) EXCEPT !.type = "claude", !.baseUrl = b] :
                b \in {Undef, <<>>, <<" ">>}}

NextAgent == EnsurePresetProviders \/ Requests(AgentPayloads, {UserId, <<"c">>})

SpecAgent == Init /\ [][NextAgent]_vars

\* The requests of the WebUI's provider form: every upsert carries id, name,
\* type, baseUrl and apiKey, and neither models nor enabled nor defaultModel.
NextForm ==
    EnsurePresetProviders \/ Requests({BasePayload(UserId)}, {UserId, PresetIds[1]})

SpecForm == Init /\ [][NextForm]_vars

\* The store's requests for one provider, and the listing of the providers.
NextList ==
    \/ EnsurePresetProviders
    \/ Requests(StorePayloads, {UserId})
    \/ ListProviders
    \/ \E raw \in RawBodies : BodyRejected(raw)
    \/ NullBody

SpecList == Init /\ [][NextList]_vars

----------------------------------------------------------------------------
(* normalize as a function: an aggregate of untrusted records is normalized *)
(* once, and the result once more.                                         *)

NormProviders ==
    {[BasePayload(UserId) EXCEPT !.baseUrl = b] :
        b \in BaseUrlInputs \cup {<<"u", " ", "/">>}}
        \cup {[BasePayload(UserId) EXCEPT !.apiKey = a] : a \in {Undef, <<" ">>}}
        \cup {[BasePayload(UserId) EXCEPT !.type = "claude", !.baseUrl = Undef],
              [BasePayload(UserId) EXCEPT !.type = "claude", !.name = Undef],
              [BasePayload(UserId) EXCEPT !.models = << <<" ">>, <<"m">> >>,
                                          !.defaultModel = <<" ">>],
              [BasePayload(<<"q">>) EXCEPT !.defaultModel = <<"z", " ">>,
                                           !.enabled = "false"],
              BasePayload(Undef)}

RECURSIVE SeqsUpTo(_, _)
SeqsUpTo(S, k) ==
    IF k = 0 THEN {<<>>}
    ELSE LET shorter == SeqsUpTo(S, k - 1)
         IN  shorter \cup {Append(q, x) : q \in shorter, x \in S}

NormConfigs ==
    {[assistantName |-> h[1], defaultProviderId |-> h[2], providers |-> ps] :
        h \in {<<Undef, Undef>>, <<<<" ", "a">>, UserId>>, <<<<" ">>, <<"x">>>>,
               <<Undef, NotAString>>},
        ps \in SeqsUpTo(NormProviders, MaxRaw)}

InitNorm ==
    /\ file = [kind |-> "absent", byProgram |-> FALSE, cfg |-> EmptyConfig]
    /\ idsMade = 0
    /\ server = Listening
    /\ refreshing = <<>>
    /\ last = Answer("boot", 0, Undef)
    /\ ledger = <<>>
    /\ chats = <<>>
    /\ session = Undef
    /\ \E config \in NormConfigs :
          pure = [pc |-> "input", input |-> config, once |-> EmptyConfig,
                  twice |-> EmptyConfig]

NormalizeOnce ==
    /\ pure.pc = "input"
    /\ pure' = [pure EXCEPT !.pc = "once", !.once = normalize(pure.input, 0)]
    /\ UNCHANGED <<storeVars, chatVars, server>>

NormalizeTwice ==
    /\ pure.pc = "once"
    /\ pure' = [pure EXCEPT !.pc = "twice",
                            !.twice = normalize(pure.once, IdsUsed(pure.input))]
    /\ UNCHANGED <<storeVars, chatVars, server>>

NextNorm == NormalizeOnce \/ NormalizeTwice

SpecNorm == InitNorm /\ [][NextNorm]_vars

----------------------------------------------------------------------------
(* readWebUiConfig as a function of the content of the file.               *)

ReadFiles ==
    InitialFiles
        \cup {[kind |-> k, byProgram |-> FALSE, cfg |-> c] :
                k \in {"json", "nullentry"}, c \in NormConfigs}
        \cup {[kind |-> k, byProgram |-> FALSE, cfg |-> EmptyConfig] :
                k \in {"null", "scalar"}}

InitRead ==
    /\ file \in ReadFiles
    /\ idsMade = 0
    /\ server = Listening
    /\ refreshing = <<>>
    /\ last = Answer("boot", 0, Undef)
    /\ ledger = <<>>
    /\ chats = <<>>
    /\ session = Undef
    /\ pure = [pc |-> "input", result |-> EmptyConfig]

Read ==
    /\ pure.pc = "input"
    /\ pure' = [pc |-> "read", result |-> readWebUiConfig(file, idsMade)]
    /\ UNCHANGED <<storeVars, chatVars, server>>

SpecRead == InitRead /\ [][Read]_vars

----------------------------------------------------------------------------
(* getProviderById as a function: a provider is looked up in a normalized  *)
(* aggregate by an optional id.                                            *)

\* The ids of the lookups: none, empty, stored ones and one no aggregate holds.
ResolveIds == {Undef, <<>>, UserId, <<"q">>, <<"x">>}

InitResolve ==
    /\ file = [kind |-> "absent", byProgram |-> FALSE, cfg |-> EmptyConfig]
    /\ idsMade = 0
    /\ server = Listening
    /\ refreshing = <<>>
    /\ last = Answer("boot", 0, Undef)
    /\ ledger = <<>>
    /\ chats = <<>>
    /\ session = Undef
    /\ \E config \in NormConfigs, id \in ResolveIds :
          pure = [pc |-> "input", config |-> normalize(config, 0), id |-> id,
                  found |-> <<>>]

Resolve ==
    /\ pure.pc = "input"
    /\ pure' = [pure EXCEPT !.pc = "resolved",
                            !.found = getProviderById(pure.config, pure.id)]
    /\ UNCHANGED <<storeVars, chatVars, server>>

SpecResolve == InitResolve /\ [][Resolve]_vars

----------------------------------------------------------------------------
(* POST /api/chat: handleChat, runChat and the two backends.  A text is a   *)
(* sequence of tokens: " " is white space, "<internal>" and "</internal>"  *)
(* are the tags stripInternal looks for.                                   *)

Truthy(x) == x # Undef /\ x # <<>>

RECURSIVE stripSpans(_)
\* text.replace(/<internal>[\s\S]*?<\/internal>/g, '')
stripSpans(text) ==
    IF text = <<>> THEN <<>>
    ELSE LET closes == {j \in 2..Len(text) : text[j] = "</internal>"}
             first == CHOOSE j \in closes : \A k \in closes : j <= k
         IN  IF Head(text) = "<internal>" /\ closes # {}
             THEN stripSpans(SubSeq(text, first + 1, Len(text)))
             ELSE <<Head(text)>> \o stripSpans(Tail(text))

RECURSIVE stripGreedy(_)
\* text.replace(/<internal>[\s\S]*<\/internal>/g, '')
stripGreedy(text) ==
    IF text = <<>> THEN <<>>
    ELSE LET closes == {j \in 2..Len(text) : text[j] = "</internal>"}
             final == CHOOSE j \in closes : \A k \in closes : j >= k
         IN  IF Head(text) = "<internal>" /\ closes # {}
             THEN stripGreedy(SubSeq(text, final + 1, Len(text)))
             ELSE <<Head(text)>> \o stripGreedy(Tail(text))

\* stripInternal with a greedy pattern.
stripInternalGreedy(text) == Trim(stripGreedy(text))

stripInternal(text) == Trim(stripSpans(text))

\* The onOutput callback's handling of output.result: a result that is no
\* string goes through JSON.stringify.
PushChunk(chunks, result) ==
    IF ~Truthy(result) THEN chunks
    ELSE LET raw == IF result = NotAString THEN <<"{}">> ELSE result
             cleaned == stripInternal(raw)
         IN  IF cleaned # <<>> THEN Append(chunks, cleaned) ELSE chunks

RECURSIVE Join(_)
\* chunks.join('\n\n')
Join(chunks) ==
    IF chunks = <<>> THEN <<>>
    ELSE IF Len(chunks) = 1 THEN chunks[1]
    ELSE chunks[1] \o <<"\n\n">> \o Join(Tail(chunks))

NoOutput == <<"(No user-visible output)">>

\* `[${provider.name}] ${text}`
Tagged(name, text) == <<"[">> \o name \o <<"]", " ">> \o text

\* The message handleChat stores for the user's turn of the n-th exchange.
UserMessage(n, name, message) ==
    [id |-> [prefix |-> "web-user", n |-> n], sender |-> "web-user",
     is_bot_message |-> FALSE, content |-> Tagged(name, message)]

\* The message handleChat stores for the assistant's turn of the n-th exchange.
BotMessage(n, name, reply) ==
    [id |-> [prefix |-> "web-bot", n |-> n], sender |-> "web-assistant",
     is_bot_message |-> TRUE, content |-> Tagged(name, reply)]

\* handleChat from storeMessageDirect to the call of runChat: the ledger, and
\* sentAt, the number of messages it holds when runChat is called.
Accepted(msgs, n, name, message) ==
    LET stored == Append(msgs, UserMessage(n, name, message))
    IN  [ledger |-> stored, sentAt |-> Len(stored)]

\* runChat, letting the provider's defaultModel win over the request's model.
runChatDefaultFirst(provider, model) ==
    IF provider.type = "claude"
    THEN [pc |-> "agent",
          model |-> IF Truthy(model) THEN model ELSE provider.defaultModel,
          error |-> Undef]
    ELSE LET selected == IF Truthy(provider.defaultModel) THEN provider.defaultModel
                         ELSE IF Truthy(model) THEN model
                         ELSE IF provider.models # <<>> THEN provider.models[1]
                         ELSE Undef
         IN  IF ~Truthy(selected)
             THEN [pc |-> "failed", model |-> Undef,
                   error |-> <<"model_required_for_provider">>]
             ELSE [pc |-> "fetch", model |-> selected, error |-> Undef]

\* The first synchronous part of runChat: the call it leaves pending, or the
\* error it throws.
runChat(provider, model) ==
    IF provider.type = "claude"
    THEN [pc |-> "agent",
          model |-> IF Truthy(model) THEN model ELSE provider.defaultModel,
          error |-> Undef]
    ELSE LET selected == IF Truthy(model) THEN model
                         ELSE IF Truthy(provider.defaultModel) THEN provider.defaultModel
                         ELSE IF provider.models # <<>> THEN provider.models[1]
                         ELSE Undef
         IN  IF ~Truthy(selected)
             THEN [pc |-> "failed", model |-> Undef,
                   error |-> <<"model_required_for_provider">>]
             ELSE [pc |-> "fetch", model |-> selected, error |-> Undef]

\* handleChat after `await runChat`, storing the failure as the assistant's turn.
SettledStoresFailure(msgs, n, name, outcome) ==
    [ledger |-> Append(msgs, BotMessage(n, name, outcome.text)),
     status |-> IF outcome.threw THEN 500 ELSE 200]

\* handleChat after `await runChat`: outcome is the reply, or the error thrown.
Settled(msgs, n, name, outcome) ==
    IF outcome.threw
    THEN [ledger |-> msgs, status |-> 500]
    ELSE [ledger |-> Append(msgs, BotMessage(n, name, outcome.text)),
          status |-> 200]

\* runClaudeContainer, returning the chunks it has when the run ended in error.
AgentOutcomePartial(chunks, result) ==
    IF result.status = "rejected" THEN [threw |-> TRUE, text |-> result.error]
    ELSE IF result.status = "error" /\ chunks = <<>>
    THEN [threw |-> TRUE,
          text |-> IF Truthy(result.error) THEN result.error
                   ELSE <<"container_error">>]
    ELSE [threw |-> FALSE,
          text |-> IF Trim(Join(chunks)) # <<>> THEN Trim(Join(chunks))
                   ELSE NoOutput]

\* What runClaudeContainer returns or throws for the result of runContainerAgent.
AgentOutcome(chunks, result) ==
    IF result.status = "rejected" THEN [threw |-> TRUE, text |-> result.error]
    ELSE IF result.status = "error"
    THEN [threw |-> TRUE,
          text |-> IF Truthy(result.error) THEN result.error
                   ELSE <<"container_error">>]
    ELSE [threw |-> FALSE,
          text |-> IF Trim(Join(chunks)) # <<>> THEN Trim(Join(chunks))
                   ELSE NoOutput]

\* runOpenAiCompatible, testing the content before it is trimmed.
FetchOutcomeReturnsBlank(resp) ==
    IF resp.kind = "rejected" THEN [threw |-> TRUE, text |-> resp.text]
    ELSE IF ~resp.ok
    THEN [threw |-> TRUE,
          text |-> <<"chat_failed:", resp.status, ":">>
                       \o SubSeq(resp.text, 1, IF Len(resp.text) < 180
                                               THEN Len(resp.text) ELSE 180)]
    ELSE IF ~IsString(resp.content) \/ resp.content = <<>>
    THEN [threw |-> TRUE, text |-> <<"empty_response">>]
    ELSE [threw |-> FALSE, text |-> Trim(resp.content)]

\* What runOpenAiCompatible returns or throws for the response of fetch.
FetchOutcome(resp) ==
    IF resp.kind = "rejected" THEN [threw |-> TRUE, text |-> resp.text]
    ELSE IF ~resp.ok
    THEN [threw |-> TRUE,
          text |-> <<"chat_failed:", resp.status, ":">>
                       \o SubSeq(resp.text, 1, IF Len(resp.text) < 180
                                               THEN Len(resp.text) ELSE 180)]
    ELSE IF ~IsString(resp.content) \/ Trim(resp.content) = <<>>
    THEN [threw |-> TRUE, text |-> <<"empty_response">>]
    ELSE [threw |-> FALSE, text |-> Trim(resp.content)]

ChatPayloads ==
    {[message |-> m, providerId |-> id, model |-> Undef] :
        m \in {Undef, <<" ">>, <<" ", "h">>},
        id \in {Undef, <<"x">>, UserId}}

AgentOutputs ==
    {[newSessionId |-> <<"s">>, result |-> <<"<internal>", "t", "</internal>", " ">>],
     [newSessionId |-> Undef, result |-> <<" ", "<internal>", "</internal>", "r">>]}

AgentResults ==
    {[status |-> "success", error |-> Undef], [status |-> "error", error |-> Undef],
     [status |-> "error", error |-> <<"e">>], [status |-> "rejected", error |-> <<"e">>]}

ChatResponses ==
    {[kind |-> "response", ok |-> FALSE, status |-> "500", text |-> <<"e">>,
      content |-> Undef],
     [kind |-> "response", ok |-> TRUE, status |-> "200", text |-> <<>>,
      content |-> Undef],
     [kind |-> "response", ok |-> TRUE, status |-> "200", text |-> <<>>,
      content |-> <<" ">>],
     [kind |-> "response", ok |-> TRUE, status |-> "200", text |-> <<>>,
      content |-> <<" ", "r">>],
     [kind |-> "rejected", ok |-> FALSE, status |-> "0", text |-> <<"fetch failed">>,
      content |-> Undef]}

\* The stores the chat requests are served from: none configured; the agent
\* backend as default and an HTTP provider, without models or with one.
ChatStores ==
    LET agent == [BasePayload(<<"c">>) EXCEPT !.type = "claude", !.name = <<"a">>]
    IN  {Written(normalize([assistantName |-> Undef, defaultProviderId |-> Undef,
                            providers |-> ps], 0)) :
            ps \in {<<>>, <<agent, BasePayload(UserId)>>,
                    <<agent, [BasePayload(UserId) EXCEPT !.models = <<<<"m">>>>]>>}}

ChatAnswer(status, error) == [Answer("chat", status, Undef) EXCEPT !.error = error]

\* No result of the collaborator yet.
NoResult == [status |-> "none", error |-> Undef]

\* handleChat, testing the provider's fields before the provider.
ValidateReadyFirst(payload, provider) ==
    IF ~IsString(payload.message) \/ Trim(payload.message) = <<>>
    THEN <<"message_required">>
    ELSE IF provider = <<>> \/ provider[1].apiKey = <<>> \/ provider[1].baseUrl = <<>>
    THEN <<"provider_not_ready">>
    ELSE Undef

\* The validation of handleChat: the error of its 400 response, Undef when
\* the request passes.  provider is <<>> when none was found.
Validate(payload, provider) ==
    IF ~IsString(payload.message) \/ Trim(payload.message) = <<>>
    THEN <<"message_required">>
    ELSE IF provider = <<>> THEN <<"no_provider_configured">>
    ELSE IF provider[1].apiKey = <<>> \/ provider[1].baseUrl = <<>>
    THEN <<"provider_not_ready">>
    ELSE Undef

\* The onOutput callback, not storing the session id it is given.
SessionAfterKeepsOld(stored, output) == stored

\* The onOutput callback, storing a session id only while the registry holds
\* none.
SessionAfterFirstWins(stored, output) ==
    IF Truthy(stored) THEN stored
    ELSE IF Truthy(output.newSessionId) THEN output.newSessionId ELSE stored

\* The session registry after the onOutput callback handled output.
SessionAfter(stored, output) ==
    IF Truthy(output.newSessionId) THEN output.newSessionId ELSE stored

\* runChat, writing the model of the request to the stored provider.
FileAfterRunChatWrites(f, provider, model) ==
    IF provider.type = "claude" /\ Truthy(model)
    THEN LET cfg == readWebUiConfig(f, 0)
             idx == IndexOf(cfg.providers, provider.id)
         IN  Written(normalize([cfg EXCEPT !.providers[idx].defaultModel = model], 0))
    ELSE f

\* The configuration file after handleChat called runChat: the assignment
\* provider.defaultModel = model of runChat acts on the aggregate that
\* readWebUiConfig built for this request, and neither handleChat nor runChat
\* nor runClaudeContainer writes an aggregate.
FileAfterRunChat(f, provider, model) == f

\* POST /api/chat, from the end of readJsonBody to the first await of runChat.
Chat(payload) ==
    LET config == current
        found == getProviderById(config, IF IsString(payload.providerId)
                                         THEN payload.providerId ELSE Undef)
        provider == IF found # <<>> THEN found
                    ELSE IF config.providers # <<>> THEN <<config.providers[1]>>
                    ELSE <<>>
        n == Len(chats) + 1
    IN  /\ Serving
        /\ n <= MaxChats
        /\ IF Validate(payload, provider) # Undef
           THEN /\ last' = ChatAnswer(400, Validate(payload, provider))
                /\ UNCHANGED <<ledger, chats>>
           ELSE LET model == IF IsString(payload.model) THEN payload.model ELSE Undef
                    message == Trim(payload.message)
                    name == provider[1].name
                    begun == Accepted(ledger, n, name, message)
                    call == runChat(provider[1], model)
                    thrown == [threw |-> TRUE, text |-> call.error]
                IN  /\ ledger' = IF call.pc = "failed"
                                 THEN Settled(begun.ledger, n, name, thrown).ledger
                                 ELSE begun.ledger
                    /\ chats' = Append(chats,
                          [pc |-> call.pc, name |-> name, type |-> provider[1].type,
                           message |-> message, model |-> call.model,
                           sessionId |-> session, chunks |-> <<>>, events |-> 0,
                           newSessionId |-> Undef, result |-> NoResult, sentAt |-> begun.sentAt,
                           text |-> call.error])
                    /\ last' = IF call.pc = "failed"
                               THEN ChatAnswer(Settled(begun.ledger, n, name, thrown).status,
                                               call.error)
                               ELSE last
        /\ file' = IF Validate(payload, provider) # Undef THEN file
                   ELSE FileAfterRunChat(file, provider[1],
                            IF IsString(payload.model) THEN payload.model ELSE Undef)
        /\ UNCHANGED <<idsMade, refreshing, pure, server, session>>

\* The onOutput callback runClaudeContainer gives runContainerAgent.
AgentOutput(i, output) ==
    /\ chats[i].pc = "agent"
    /\ chats[i].events < MaxEvents
    /\ session' = SessionAfter(session, output)
    /\ chats' = [chats EXCEPT
                    ![i].events = @ + 1,
                    ![i].newSessionId = IF Truthy(output.newSessionId)
                                        THEN output.newSessionId ELSE @,
                    ![i].chunks = PushChunk(@, output.result)]
    /\ UNCHANGED <<storeVars, pure, server, ledger>>

\* The end of an exchange: handleChat from the settling of runChat on.  The
\* body of a 200 response is the reply.
ChatEnds(i, outcome, result) ==
    LET done == Settled(ledger, i, chats[i].name, outcome)
    IN  /\ ledger' = done.ledger
        /\ chats' = [chats EXCEPT ![i].pc = IF outcome.threw THEN "failed" ELSE "ok",
                                  ![i].text = outcome.text,
                                  ![i].result = result]
        /\ last' = [ChatAnswer(done.status,
                               IF outcome.threw THEN outcome.text ELSE Undef)
                        EXCEPT !.body = IF outcome.threw THEN <<>> ELSE outcome.text]
        /\ UNCHANGED <<file, idsMade, refreshing, pure, server, session>>

\* runContainerAgent settles.
AgentReturns(i, result) ==
    /\ chats[i].pc = "agent"
    /\ ChatEnds(i, AgentOutcome(chats[i].chunks, result), result)

\* The fetch of runOpenAiCompatible settles.
FetchReturns(i, resp) ==
    /\ chats[i].pc = "fetch"
    /\ ChatEnds(i, FetchOutcome(resp), NoResult)

InitChat ==
    /\ file \in ChatStores
    /\ idsMade = 0
    /\ server = Listening
    /\ refreshing = <<>>
    /\ last = Answer("listen", 0, Undef)
    /\ pure = PureIdle
    /\ ledger = <<>>
    /\ chats = <<>>
    /\ session = Undef

NextChat ==
    \/ \E payload \in ChatPayloads : Chat(payload)
    \/ \E i \in 1..Len(chats), output \in AgentOutputs : AgentOutput(i, output)
    \/ \E i \in 1..Len(chats), result \in AgentResults : AgentReturns(i, result)
    \/ \E i \in 1..Len(chats), resp \in ChatResponses : FetchReturns(i, resp)

SpecChat == InitChat /\ [][NextChat]_vars

\* Chats of the agent backend on the web slot, the registry holding no
\* identifier or one of an earlier run.  The k-th event of exchange i reports
\* no identifier or the identifier "s i k": no two events report the same one.
SessionOutputs(i) ==
    {[newSessionId |-> id, result |-> <<"r">>] :
        id \in {Undef, <<"s", ToString(i), ToString(chats[i].events + 1)>>}}

InitSession ==
    /\ file \in ChatStores
    /\ file.cfg.providers # <<>>
    /\ idsMade = 0
    /\ server = Listening
    /\ refreshing = <<>>
    /\ last = Answer("listen", 0, Undef)
    /\ pure = PureIdle
    /\ ledger = <<>>
    /\ chats = <<>>
    /\ session \in {Undef, <<"s", "0">>}

NextSession ==
    \/ Chat([message |-> <<"h">>, providerId |-> Undef, model |-> Undef])
    \/ \E i \in 1..Len(chats) :
          \E output \in SessionOutputs(i) : AgentOutput(i, output)
    \/ \E i \in 1..Len(chats) :
          \E result \in {[status |-> "success", error |-> Undef],
                          [status |-> "error", error |-> <<"e">>]} :
              AgentReturns(i, result)

SpecSession == InitSession /\ [][NextSession]_vars

\* The store's requests together with chats for the default provider and for
\* UserId, each answered by the upstream with a reply or with an error.
NextReady ==
    \/ NextAgent
    \/ \E id \in {Undef, UserId} :
          Chat([message |-> <<"h">>, providerId |-> id, model |-> Undef])
    \/ \E i \in 1..Len(chats) :
          \E resp \in {r \in ChatResponses : r.status = "500" \/ r.content = <<" ", "r">>} :
              FetchReturns(i, resp)

SpecReady == Init /\ [][NextReady]_vars

\* Chats with and without a model of their own, for the agent backend and for
\* the HTTP provider, each run to its end.
NextModelChat ==
    \/ \E id \in {Undef, UserId}, m \in {Undef, <<"z">>} :
          Chat([message |-> <<"h">>, providerId |-> id, model |-> m])
    \/ \E i \in 1..Len(chats), result \in AgentResults : AgentReturns(i, result)
    \/ \E i \in 1..Len(chats), resp \in ChatResponses : FetchReturns(i, resp)

SpecModelChat == InitChat /\ [][NextModelChat]_vars

----------------------------------------------------------------------------
(* The shutdown of main: a signal closes the server, and the process exits *)
(* when the server has closed.  A request holds its connection until its   *)
(* response is sent.                                                       *)

\* The chat requests whose response is still to come.
InFlight == {i \in 1..Len(chats) : chats[i].pc \in {"agent", "fetch"}}

\* shutdown, calling process.exit without waiting for server.close.
SignalExitsAtOnce ==
    /\ server.state # "exited"
    /\ server' = [state |-> "exited", code |-> "0", waited |-> InFlight # {}]
    /\ UNCHANGED <<storeVars, pure, chatVars>>

\* SIGTERM or SIGINT: shutdown calls server.close, which stops the listening.
\* A later signal calls server.close again, which changes nothing.
Signal ==
    /\ server.state # "exited"
    /\ server' = IF server.state = "listening"
                 THEN [state |-> "closing", code |-> "none", waited |-> InFlight # {}]
                 ELSE server
    /\ UNCHANGED <<storeVars, pure, chatVars>>

\* The callback of server.close, run when the last connection has ended:
\* process.exit(0).
Exit ==
    /\ server.state = "closing"
    /\ InFlight = {}
    /\ server' = [server EXCEPT !.state = "exited", !.code = "0"]
    /\ UNCHANGED <<storeVars, pure, chatVars>>

\* The server with the agent backend as default and an HTTP provider.
InitShutdown ==
    /\ InitChat
    /\ file.cfg.providers # <<>>
    /\ \A i \in 1..Len(file.cfg.providers) :
          file.cfg.providers[i].type = "claude" \/ file.cfg.providers[i].models # <<>>

NextShutdown ==
    \/ \E id \in {Undef, UserId} :
          Chat([message |-> <<"h">>, providerId |-> id, model |-> Undef])
    \/ \E i \in 1..Len(chats), result \in AgentResults : AgentReturns(i, result)
    \/ \E i \in 1..Len(chats), resp \in ChatResponses : FetchReturns(i, resp)
    \/ Signal
    \/ Exit

\* The event loop runs the callback of server.close once the server has closed.
SpecShutdown == InitShutdown /\ [][NextShutdown]_vars /\ WF_vars(Exit)

----------------------------------------------------------------------------
(* runChat as a function of the provider and of the request's model. *)

\* The providers and models runChat is called with: both types, defaultModel
\* absent, empty or set, no, one or two models; model absent, empty, blank or
\* set.
DispatchInputs ==
    {[provider |-> [type |-> t, defaultModel |-> d, models |-> ms], model |-> m] :
        t \in {"claude", "openai-compatible"},
        d \in {Undef, <<>>, <<"d">>},
        ms \in {<<>>, << <<"m">> >>, << <<"m">>, <<"n">> >>},
        m \in {Undef, <<>>, <<" ">>, <<"z">>}}

InitDispatch ==
    /\ file = [kind |-> "absent", byProgram |-> FALSE, cfg |-> EmptyConfig]
    /\ idsMade = 0
    /\ server = Listening
    /\ refreshing = <<>>
    /\ last = Answer("listen", 0, Undef)
    /\ ledger = <<>>
    /\ chats = <<>>
    /\ session = Undef
    /\ \E input \in DispatchInputs :
          pure = [pc |-> "input", input |-> input,
                  call |-> [pc |-> "none", model |-> Undef, error |-> Undef]]

Dispatch ==
    /\ pure.pc = "input"
    /\ pure' = [pure EXCEPT !.pc = "called",
                            !.call = runChat(pure.input.provider, pure.input.model)]
    /\ UNCHANGED <<storeVars, chatVars, server>>

SpecDispatch == InitDispatch /\ [][Dispatch]_vars

----------------------------------------------------------------------------
(* The reply of runClaudeContainer as a function of the outputs streamed. *)

\* Results of output events: none, blank, a region before text, plain text, a
\* region opened inside a region, a region never closed, a closing tag
\* before two regions, a value that is no string.
Fragments ==
    {Undef, <<" ", " ">>, <<"<internal>", "x", "</internal>", "hello">>, <<"world">>,
     <<"<internal>", "a", "<internal>", "b", "</internal>", "c", "</internal>">>,
     <<"a", "<internal>", "s">>,
     <<"</internal>", "<internal>", "t", "</internal>", " ", "<internal>",
       "</internal>", "r">>,
     NotAString}

RECURSIVE Collect(_)
\* The chunks after the callback handled the results in order.
Collect(results) ==
    IF results = <<>> THEN <<>>
    ELSE PushChunk(Collect(SubSeq(results, 1, Len(results) - 1)),
                   results[Len(results)])

InitReply ==
    /\ file = [kind |-> "absent", byProgram |-> FALSE, cfg |-> EmptyConfig]
    /\ idsMade = 0
    /\ server = Listening
    /\ refreshing = <<>>
    /\ last = Answer("listen", 0, Undef)
    /\ ledger = <<>>
    /\ chats = <<>>
    /\ session = Undef
    /\ \E results \in SeqsUpTo(Fragments, MaxFragments) :
          pure = [pc |-> "input", results |-> results, reply |-> Undef]

BuildReply ==
    /\ pure.pc = "input"
    /\ pure' = [pure EXCEPT
                    !.pc = "replied",
                    !.reply = AgentOutcome(Collect(pure.results),
                                           [status |-> "success", error |-> Undef]).text]
    /\ UNCHANGED <<storeVars, chatVars, server>>

SpecReply == InitReply /\ [][BuildReply]_vars

----------------------------------------------------------------------------
(* Properties of the store. *)

\* defaultProviderId is unset or the id of a provider of the aggregate.
DefaultOk(config) ==
    config.defaultProviderId = Undef
        \/ HasId(config.providers, config.defaultProviderId)

\* What a pass that finds the default dangling leaves: the first provider's id,
\* or nothing when no provider is left.
Repaired(config) ==
    config.defaultProviderId =
        IF config.providers # <<>> THEN config.providers[1].id ELSE Undef

Elements(seq) == {seq[i] : i \in 1..Len(seq)}

\* C1: in every aggregate the program has written and in every aggregate a read
\* returns, whatever the file holds, defaultProviderId is unset or names one of
\* the providers; where the file's value names none of the providers a read
\* keeps, the read returns the first provider's id, or no default when the list
\* is empty.
C1_DefaultNamesProvider ==
    /\ file.byProgram => DefaultOk(file.cfg)
    /\ DefaultOk(current)
    /\ ~HasId(current.providers, file.cfg.defaultProviderId) => Repaired(current)

\* A file not written by the program names a default that no provider has, and
\* the read at startup returned the first provider it kept.
C1_Witness ==
    /\ last.op = "listen"
    /\ file.kind = "json" /\ ~file.byProgram
    /\ ~HasId(current.providers, file.cfg.defaultProviderId)
    /\ current.providers # <<>>
    /\ current.defaultProviderId = current.providers[1].id

\* C4 as claimed: once bootstrap has answered ok:true the store holds a provider
\* for each of the four preset ids.
C4_BootstrapStoresPresets ==
    (last.op = "bootstrap" /\ last.status = 200)
        => \A i \in 1..Len(PresetIds) : HasId(file.cfg.providers, PresetIds[i])

\* C9: after the delete of the provider that was the default, no provider has
\* the deleted id, and the default names a provider that remains, or is unset
\* when none remains.
C9_DeleteDefaultReassigns ==
    (last.op = "delete" /\ last.status = 200 /\ last.wasDefault)
        => /\ ~HasId(file.cfg.providers, last.id)
           /\ file.cfg.providers # <<>> =>
                 HasId(file.cfg.providers, file.cfg.defaultProviderId)
           /\ file.cfg.providers = <<>> => file.cfg.defaultProviderId = Undef

\* The default was deleted while another provider remained, which is the
\* default now.
C9_Witness ==
    /\ last.op = "delete" /\ last.status = 200 /\ last.wasDefault
    /\ file.cfg.providers # <<>>
    /\ file.cfg.defaultProviderId = file.cfg.providers[1].id
    /\ file.cfg.defaultProviderId # last.id

Find(providers, id) == SelectSeq(providers, LAMBDA p : p.id = id)

C5_BootstrapKeepsStore ==
    [][(last'.op = "bootstrap" /\ file.byProgram) =>
        /\ \A p \in Elements(file.cfg.providers) : p \in Elements(file'.cfg.providers)
        /\ (file.cfg.defaultProviderId # Undef /\ DefaultOk(file.cfg)) =>
                file'.cfg.defaultProviderId = file.cfg.defaultProviderId]_vars

\* C6 as claimed: an upsert for the id of a provider the store holds leaves that
\* provider stored, with the apiKey it had when the payload gives none, and
\* with the payload's trimmed apiKey otherwise.
C6_UpsertKeepsOrReplacesKey ==
    [][(last'.op = "upsert" /\ HasId(current.providers, last'.id)) =>
        LET old == Find(current.providers, last'.id)[1]
            new == Find(file'.cfg.providers, last'.id)
        IN  /\ new # <<>>
            /\ new[1].apiKey = IF last'.keyGiven THEN last'.key ELSE old.apiKey]_vars

Identifiers(resp) ==
    LET entries == IF resp.hasData THEN resp.data ELSE resp.models
        Of(e) == IF e.id # Undef /\ e.id # <<>> THEN e.id ELSE e.name
    IN  {x \in {Of(entries[i]) : i \in 1..Len(entries)} : IsString(x) /\ x # <<>>}

\* C11 as claimed: the models a successful models/refresh answers are the
\* identifiers of an upstream response, each once and in ascending order, and
\* the provider, when stored, holds exactly that list as its models.
C11_RefreshStoresFetched ==
    (last.op = "refresh" /\ last.status = 200) =>
        /\ \A i \in 1..Len(last.models) - 1 : StrLess(last.models[i], last.models[i + 1])
        /\ \E resp \in Responses : resp.ok /\ Elements(last.models) = Identifiers(resp)
        /\ \A p \in Elements(file.cfg.providers) :
              p.id = last.id => p.models = last.models

----------------------------------------------------------------------------
(* Properties of normalize. *)

\* The field is absent, not a string, or blank.
Missing(x) == ~IsString(x) \/ Trim(x) = <<>>

Count(seq, Test(_)) == Cardinality({i \in 1..Len(seq) : Test(seq[i])})

Usable(p) == p.name # <<>> /\ p.baseUrl # <<>> /\ p.apiKey # <<>>

\* C7 as claimed: normalizing the result of normalize returns it unchanged.
C7_NormalizeIdempotent == pure.pc = "twice" => pure.twice = pure.once

\* C8 as claimed: toProviderConfig returns null for a record without a non-blank
\* name, baseUrl or apiKey, whatever its type, and normalize keeps no such
\* record.
C8_RejectsIncomplete ==
    LET Incomplete(p) == Missing(p.name) \/ Missing(p.baseUrl) \/ Missing(p.apiKey)
    IN  /\ \A p \in Elements(pure.input.providers) :
              Incomplete(p) => toProviderConfig(p, randomId(1)) = <<>>
        /\ pure.pc # "input" =>
              /\ Len(pure.once.providers)
                    <= Count(pure.input.providers, LAMBDA p : ~Incomplete(p))
              /\ \A q \in Elements(pure.once.providers) : Usable(q)

\* C8, amended: toProviderConfig returns null for a record without a non-blank
\* name or apiKey, and for a record without a non-blank baseUrl unless its type
\* is the agent backend (any type but openai-compatible), which gets the vendor
\* endpoint; normalize keeps no rejected record, and every provider it returns
\* has a non-empty name, baseUrl and apiKey.
C8_RejectsUnusable ==
    LET Incomplete(p) ==
            \/ Missing(p.name)
            \/ Missing(p.apiKey)
            \/ (Missing(p.baseUrl) /\ p.type = "openai-compatible")
    IN  /\ \A p \in Elements(pure.input.providers) :
              Incomplete(p) => toProviderConfig(p, randomId(1)) = <<>>
        /\ pure.pc # "input" =>
              /\ Len(pure.once.providers)
                    <= Count(pure.input.providers, LAMBDA p : ~Incomplete(p))
              /\ \A q \in Elements(pure.once.providers) : Usable(q)

\* Of two records one has no apiKey and is dropped, the other is an agent-backend
\* record without baseUrl and is kept with the vendor endpoint.
C8_Witness ==
    /\ pure.pc = "once"
    /\ Len(pure.input.providers) = 2
    /\ \E p \in Elements(pure.input.providers) : Missing(p.apiKey)
    /\ \E p \in Elements(pure.input.providers) : p.type = "claude" /\ Missing(p.baseUrl)
    /\ Len(pure.once.providers) = 1
    /\ pure.once.providers[1].baseUrl = DEFAULT_ANTHROPIC_BASE

----------------------------------------------------------------------------
(* Properties of runChat. *)

\* C12: for a provider of type openai-compatible runChat leaves a completion
\* request pending for the request's model when one is given, else for the
\* provider's defaultModel, else for the first of its models; with none of the
\* three it throws model_required_for_provider and no request is pending.
C12_ModelPriority ==
    (pure.pc = "called" /\ pure.input.provider.type = "openai-compatible") =>
        LET provider == pure.input.provider
            model == pure.input.model
            Sent(m) == pure.call.pc = "fetch" /\ pure.call.model = m
        IN  IF Truthy(model) THEN Sent(model)
            ELSE IF Truthy(provider.defaultModel) THEN Sent(provider.defaultModel)
            ELSE IF provider.models # <<>> THEN Sent(provider.models[1])
            ELSE /\ pure.call.pc = "failed"
                 /\ pure.call.error = <<"model_required_for_provider">>

\* runChat was called for an HTTP provider with a defaultModel and with a
\* request's model, and the request's model is the one sent.
C12_Witness ==
    /\ pure.pc = "called"
    /\ pure.input.provider.type = "openai-compatible"
    /\ pure.input.provider.defaultModel = <<"d">>
    /\ pure.input.model = <<"z">>
    /\ pure.call.pc = "fetch" /\ pure.call.model = <<"z">>

\* The positions of a fragment inside an internal region: a region runs from
\* an opening tag to the first closing tag after it, and opens at the first
\* opening tag that follows the closing tag of the region before.
Removed(text) ==
    {k \in 1..Len(text) :
        \E i \in 1..k, j \in k..Len(text) :
            /\ i < j
            /\ text[i] = "<internal>" /\ text[j] = "</internal>"
            /\ \A m \in (i + 1)..(j - 1) : text[m] # "</internal>"
            /\ \A m \in 1..(i - 1) :
                  text[m] = "<internal>" =>
                      \E c \in (m + 1)..(i - 1) : text[c] = "</internal>"}

RECURSIVE Outside(_, _)
\* The text of a fragment from position k on that is in no internal region.
Outside(text, k) ==
    IF k > Len(text) THEN <<>>
    ELSE (IF k \in Removed(text) THEN <<>> ELSE <<text[k]>>) \o Outside(text, k + 1)

\* C13: the reply of a successful run is made of the results in the order of
\* their events: each result that is not empty, without the text of its internal
\* regions and trimmed; those that are left empty dropped; the others joined
\* by a blank line (the placeholder when none is left).  So nothing between an
\* opening tag and the first closing tag after it reaches the reply.
C13_ReplyFromFragments ==
    pure.pc = "replied" =>
        LET results == pure.results
            Text(r) == IF r = NotAString THEN <<"{}">> ELSE r
            cleaned == [i \in 1..Len(results) |->
                          IF ~Truthy(results[i]) THEN <<>>
                          ELSE Trim(Outside(Text(results[i]), 1))]
            surviving == SelectSeq(cleaned, LAMBDA t : t # <<>>)
            joined[k \in 0..Len(surviving)] ==
                IF k = 0 THEN <<>>
                ELSE IF k = 1 THEN surviving[1]
                ELSE joined[k - 1] \o <<"\n\n">> \o surviving[k]
        IN  pure.reply = IF surviving = <<>> THEN NoOutput
                         ELSE joined[Len(surviving)]

\* The results "<internal>x</internal>hello", "  ", "world" gave the reply
\* "hello\n\nworld".
C13_Witness ==
    /\ pure.pc = "replied"
    /\ pure.results = << <<"<internal>", "x", "</internal>", "hello">>, <<" ", " ">>,
                         <<"world">> >>
    /\ pure.reply = <<"hello", "\n\n", "world">>

----------------------------------------------------------------------------
(* Properties of the chat exchanges. *)

Turns(prefix, i) == {k \in 1..Len(ledger) : ledger[k].id = [prefix |-> prefix, n |-> i]}

\* C3: for every exchange that passed validation, whatever other exchanges are
\* pending: the user's message was in the ledger when runChat was called and
\* is still there; an assistant message of the exchange exists only when
\* runChat returned a reply, holds that reply and was stored after the call;
\* and after a failure the ledger holds nothing of the exchange but the user's
\* message, the error being in the response only.
C3_LedgerOrder ==
    /\ \A i \in 1..Len(chats) :
          /\ \E k \in Turns("web-user", i) :
                /\ k <= chats[i].sentAt
                /\ ledger[k] = UserMessage(i, chats[i].name, chats[i].message)
          /\ \A k \in Turns("web-bot", i) :
                /\ chats[i].pc = "ok"
                /\ k > chats[i].sentAt
                /\ ledger[k] = BotMessage(i, chats[i].name, chats[i].text)
          /\ chats[i].pc = "failed" =>
                \A k \in 1..Len(ledger) :
                    ledger[k].id.n = i => k \in Turns("web-user", i)
    /\ \A k \in 1..Len(ledger) :
          \E i \in 1..Len(chats) : k \in Turns("web-user", i) \cup Turns("web-bot", i)
    /\ (last.op = "chat" /\ last.status = 500) =>
          \E i \in 1..Len(chats) : chats[i].pc = "failed" /\ chats[i].text = last.error

\* While the first exchange waits for the container, the second one failed on an
\* empty completion: the ledger holds the two user messages and nothing else.
C3_Witness ==
    /\ Len(chats) = 2
    /\ chats[1].pc = "agent" /\ chats[1].events > 0
    /\ chats[2].pc = "failed" /\ chats[2].text = <<"empty_response">>
    /\ last.status = 500 /\ last.error = <<"empty_response">>
    /\ Len(ledger) = 2

\* The replies and failures of an exchange. Blank is what trims to nothing.
Blank(text) == Trim(text) = <<>>

\* C14: an exchange that succeeded never has an empty or blank reply, in the
\* chat record, in the 200 response or in the ledger; on the agent path a
\* successful run that left no fragment replies with the placeholder; and on
\* the HTTP path every successful response whose first-choice content is absent
\* or blank makes the dispatch throw empty_response.
C14_ReplyNeverBlank ==
    /\ \A i \in 1..Len(chats) :
          chats[i].pc = "ok" =>
              /\ ~Blank(chats[i].text)
              /\ (chats[i].type = "claude" /\ chats[i].chunks = <<>>) =>
                     chats[i].text = NoOutput
              /\ \A k \in Turns("web-bot", i) :
                     ledger[k].content = Tagged(chats[i].name, chats[i].text)
    /\ (last.op = "chat" /\ last.status = 200) => ~Blank(last.body)
    /\ \A resp \in ChatResponses :
          (resp.kind = "response" /\ resp.ok
             /\ (~IsString(resp.content) \/ Blank(resp.content))) =>
              FetchOutcome(resp) = [threw |-> TRUE, text |-> <<"empty_response">>]

\* The agent run of the first exchange handled an output that left no fragment
\* and succeeded: the reply is the placeholder, in the response and in the
\* ledger; the second exchange, over HTTP, failed on an empty completion.
C14_Witness ==
    /\ Len(chats) = 2
    /\ chats[1].type = "claude" /\ chats[1].pc = "ok"
    /\ chats[1].events > 0 /\ chats[1].chunks = <<>>
    /\ chats[1].text = NoOutput
    /\ last.status = 200 /\ last.body = NoOutput
    /\ \E k \in 1..Len(ledger) : ledger[k] = BotMessage(1, chats[1].name, NoOutput)
    /\ chats[2].type # "claude" /\ chats[2].pc = "failed"
    /\ chats[2].text = <<"empty_response">>

\* C15: when the callback of an agent run has handled an output carrying a
\* session id, the registry holds that id at once, while the run is still
\* pending; the settling of a run, in success or in error, leaves the registry
\* as it is; so once a run has reported an id the registry holds a reported id,
\* whatever the run ended in.
C15_SessionStoredOnEvent ==
    /\ [][\A i \in 1..Len(chats) :
            /\ (chats'[i].events > chats[i].events
                  /\ chats'[i].newSessionId # chats[i].newSessionId) =>
                   /\ session' = chats'[i].newSessionId
                   /\ chats'[i].pc = "agent"
            /\ (chats[i].pc = "agent" /\ chats'[i].pc # "agent") =>
                   session' = session]_vars
    /\ [](\A i \in 1..Len(chats) :
            Truthy(chats[i].newSessionId) =>
                \E j \in 1..Len(chats) : session = chats[j].newSessionId)

\* A run reported the session id "s", then ended in error: the exchange failed
\* and the registry holds "s".
C15_Witness ==
    \E i \in 1..Len(chats) :
        /\ chats[i].pc = "failed" /\ chats[i].result.status = "error"
        /\ chats[i].newSessionId = <<"s">>
        /\ session = <<"s">>

\* C16: an agent run that ended with status error makes the exchange fail with
\* the collaborator's error (container_error when it gave none), whatever
\* fragments were collected: the response is a 500 carrying that error and no
\* reply, and the ledger gets nothing, neither then nor later.
C16_NoPartialSuccess ==
    /\ [][\A i \in 1..Len(chats) :
            (chats[i].pc = "agent" /\ chats'[i].result.status = "error") =>
                /\ chats'[i].pc = "failed"
                /\ last'.op = "chat" /\ last'.status = 500
                /\ last'.error = IF Truthy(chats'[i].result.error)
                                 THEN chats'[i].result.error
                                 ELSE <<"container_error">>
                /\ last'.body = <<>>
                /\ ledger' = ledger]_vars
    /\ [](\A i \in 1..Len(chats) :
            chats[i].result.status = "error" =>
                /\ chats[i].pc = "failed"
                /\ Turns("web-bot", i) = {}
                /\ \A k \in 1..Len(ledger) :
                       ledger[k].id.n = i =>
                           ledger[k] = UserMessage(i, chats[i].name, chats[i].message))

\* A run collected a fragment and then ended with status error and the detail
\* "e": the exchange failed with "e" and the ledger holds the user's message only.
C16_Witness ==
    /\ Len(chats) = 1
    /\ chats[1].chunks # <<>>
    /\ chats[1].result = [status |-> "error", error |-> <<"e">>]
    /\ chats[1].pc = "failed" /\ chats[1].text = <<"e">>
    /\ last.status = 500 /\ last.error = <<"e">>
    /\ Len(ledger) = 1

\* C17: the step that answers a chat request with 400 changes neither the
\* ledger, nor the exchanges under way (no backend is called), nor the session
\* registry, nor the persisted configuration; a store without providers answers
\* every chat request with 400, and with no_provider_configured when the
\* message is a non-blank string.
C17_RejectedChatNoEffect ==
    /\ [][(last' # last /\ last'.op = "chat" /\ last'.status = 400) =>
             UNCHANGED <<ledger, chats, session, file, idsMade, refreshing>>]_vars
    /\ [](current.providers = <<>> =>
             /\ chats = <<>> /\ ledger = <<>>
             /\ last.op = "chat" =>
                    /\ last.status = 400
                    /\ last.error \in {<<"message_required">>,
                                       <<"no_provider_configured">>}
             /\ \A payload \in ChatPayloads :
                    (IsString(payload.message) /\ ~Blank(payload.message)) =>
                        Validate(payload, <<>>) = <<"no_provider_configured">>)

\* A chat against the store without providers was answered 400
\* no_provider_configured, and nothing else happened.
C17_Witness ==
    /\ current.providers = <<>>
    /\ last = ChatAnswer(400, <<"no_provider_configured">>)
    /\ ledger = <<>> /\ chats = <<>> /\ session = Undef

\* C19: a set-default request on a store this program wrote, when it names
\* no stored provider, is answered 404 and leaves the aggregate as it was, and
\* when it names one, is answered 200, makes that id the default and leaves
\* every provider as it was.
C19_SetDefaultChangesDefaultOnly ==
    [][(last'.op = "set-default" /\ file.byProgram) =>
          /\ last'.status = 404 <=> (Truthy(last'.id) /\ ~HasId(file.cfg.providers, last'.id))
          /\ last'.status = 404 => file'.cfg = file.cfg
          /\ last'.status = 200 =>
                 /\ file'.cfg.defaultProviderId = last'.id
                 /\ file'.cfg.providers = file.cfg.providers]_vars

\* C20: the step in which a models/refresh fails on an unsuccessful upstream
\* response answers 500 with a model_fetch_failed error that holds the status
\* of that response, and leaves the persisted file, the provider's models and
\* defaultModel included, as it was.
C20_RefreshFailureKeepsStore ==
    [][(last'.op = "refresh" /\ last'.status = 500) =>
          /\ file' = file
          /\ Head(last'.error) = "model_fetch_failed:"
          /\ \E resp \in Responses :
                /\ ~resp.ok
                /\ \E k \in 1..Len(last'.error) : last'.error[k] = resp.status]_vars

\* The refresh of a provider that has models stored failed on the upstream
\* status 503; the provider still has its models and its defaultModel.
C20_Witness ==
    /\ last.op = "refresh" /\ last.status = 500
    /\ \E k \in 1..Len(last.error) : last.error[k] = "503"
    /\ \E i \in 1..Len(file.cfg.providers) :
          /\ file.cfg.providers[i].id = last.id
          /\ file.cfg.providers[i].models # <<>>
          /\ file.cfg.providers[i].defaultModel = file.cfg.providers[i].models[1]

----------------------------------------------------------------------------
(* Properties of the listing of the providers. *)

\* The keys a stored key is replaced by: other secrets, one of them the mask.
OtherKeys == {<<"k">>, <<"j">>, <<"***">>}

\* The file f with the non-empty apiKey of its i-th provider replaced by keys[i].
Rekeyed(f, keys) ==
    [f EXCEPT !.cfg.providers =
        [i \in DOMAIN @ |->
            IF IsString(@[i].apiKey) /\ @[i].apiKey # <<>>
            THEN [@[i] EXCEPT !.apiKey = keys[i]] ELSE @[i]]]

\* C18: the response of GET /api/providers lists every provider of the
\* aggregate with the apiKey "***", and is the response the same request gets
\* from every store that differs from this one in the values of its non-empty
\* apiKeys only.
C18_KeysMasked ==
    last.op = "providers" =>
        LET body == last.body[1]
        IN  /\ Len(body.providers) = Len(current.providers)
            /\ \A i \in 1..Len(current.providers) :
                   /\ current.providers[i].apiKey # <<>>
                   /\ body.providers[i].apiKey = <<"***">>
                   /\ body.providers[i].id = current.providers[i].id
            /\ \A keys \in [1..Len(file.cfg.providers) -> OtherKeys] :
                   ProvidersResponse(readWebUiConfig(Rekeyed(file, keys), idsMade)) = body

\* The listing of a store of two providers whose keys differ shows "***" twice.
C18_Witness ==
    /\ last.op = "providers"
    /\ Len(current.providers) = 2
    /\ current.providers[1].apiKey # current.providers[2].apiKey
    /\ \A i \in 1..2 : last.body[1].providers[i].apiKey = <<"***">>

----------------------------------------------------------------------------
(* Properties of the lookup of a provider. *)

\* C21: getProviderById returns the provider whose id is the explicit id when
\* the aggregate holds one; else the provider the aggregate's
\* defaultProviderId names; else undefined.
C21_ResolveDefault ==
    pure.pc = "resolved" =>
        LET byId == Find(pure.config.providers, pure.id)
            byDefault == Find(pure.config.providers, pure.config.defaultProviderId)
        IN  pure.found = IF byId # <<>> THEN <<byId[1]>>
                         ELSE IF byDefault # <<>> THEN <<byDefault[1]>>
                         ELSE <<>>

----------------------------------------------------------------------------
(* Properties of the errors of the requests. *)

\* C22: a chat request that fails validation, the failure to resolve a model
\* on the HTTP path included, is answered with a 4xx status and its reason code.
C22_ValidationIsClientError ==
    LET ValidationErrors ==
            {<<"message_required">>, <<"no_provider_configured">>,
             <<"provider_not_ready">>, <<"model_required_for_provider">>}
    IN  (last.op = "chat" /\ last.error \in ValidationErrors) =>
            last.status \in 400..499

\* C23: a set-default, models/refresh or delete request whose id names no
\* provider of the store is answered 404 and leaves the aggregate as it was.
C23_UnknownIdNotFound ==
    [][(last'.op \in {"set-default", "refresh", "delete"} /\ Truthy(last'.id)
          /\ file.byProgram /\ ~HasId(file.cfg.providers, last'.id)) =>
             /\ last'.status = 404
             /\ file'.cfg = file.cfg]_vars

\* C24: a request whose body is longer than the cap, or is no JSON, gets the
\* response 413 payload_too_large, or 400 invalid_json, and changes neither the
\* file, nor the ledger, nor the session registry, nor the calls under way.
C24_BadBodyRejected ==
    [][last'.op = "body" =>
          LET raw == last'.body[1]
          IN  /\ UNCHANGED <<file, idsMade, refreshing, ledger, chats, session>>
              /\ last'.delivered
              /\ raw.length > BodyCap =>
                     (last'.status = 413 /\ last'.error = <<"payload_too_large">>)
              /\ (raw.length <= BodyCap /\ ~raw.parses) =>
                     (last'.status = 400 /\ last'.error = <<"invalid_json">>)]_vars

\* C25: the request whose handler throws on a body that is no object is
\* answered once, with status 500 and the generic error internal_error, and the
\* server goes on serving.
C25_UnexpectedFailureGeneric ==
    last.op = "null-body" =>
        /\ last.status = 500 /\ last.delivered
        /\ last.error = <<"internal_error">>
        /\ Serving

----------------------------------------------------------------------------
(* Properties of the shutdown. *)

\* C26: once a signal has come, no new request is accepted: the only answers
\* are those of the requests that were in flight; the process has not exited
\* while a request is in flight, and exits with code 0 only; and when the
\* server is closing and no request is in flight, the process eventually
\* exits.
C26_GracefulShutdown ==
    /\ [][server.state # "listening" =>
             /\ Len(chats') = Len(chats)
             /\ last' # last => \E i \in InFlight : chats'[i].pc # chats[i].pc]_vars
    /\ [](server.state = "exited" => (InFlight = {} /\ server.code = "0"))
    /\ [](server.state # "exited" => server.code = "none")
    /\ (server.state = "closing" /\ InFlight = {}) ~> (server.state = "exited")

\* The signal came while requests were in flight; they were answered, and the
\* process exited with code 0.
C26_Witness ==
    /\ server = [state |-> "exited", code |-> "0", waited |-> TRUE]
    /\ \E i \in 1..Len(chats) : chats[i].pc = "ok"
    /\ \E i \in 1..Len(chats) : chats[i].pc = "failed" /\ chats[i].result.status = "error"

----------------------------------------------------------------------------
(* Properties of readWebUiConfig. *)

\* C27: whatever the file holds, readWebUiConfig returns an aggregate: a list
\* of providers that have an id, a name, a baseUrl and an apiKey, and a default
\* that is unset or names one of them; the aggregate is the empty one when the
\* file is absent or JSON.parse rejects its content.
C27_ReadNeverFails ==
    pure.pc = "read" =>
        /\ \A i \in 1..Len(pure.result.providers) :
              /\ Usable(pure.result.providers[i])
              /\ IsString(pure.result.providers[i].id)
        /\ DefaultOk(pure.result)
        /\ file.kind \in {"absent", "garbage"} => pure.result = EmptyConfig

\* A file whose provider list holds null besides a usable provider was read:
\* the TypeError of normalize was caught and the empty aggregate returned.
C27_Witness ==
    /\ pure.pc = "read"
    /\ file.kind = "nullentry"
    /\ \E i \in 1..Len(file.cfg.providers) : toProviderConfig(file.cfg.providers[i], randomId(1)) # <<>>
    /\ pure.result = EmptyConfig

----------------------------------------------------------------------------
(* Properties of the upsert of a provider. *)

\* C28: after an upsert answered 200 the file holds a provider with the id of
\* the request, and a read of the file, which is what GET /api/providers
\* lists, returns it; an upsert answered 400 leaves the file as it was.
C28_UpsertStoresProvider ==
    [][last'.op = "upsert" =>
          /\ last'.status = 200 =>
                 /\ HasId(file'.cfg.providers, last'.id)
                 /\ HasId(readWebUiConfig(file', idsMade').providers, last'.id)
          /\ last'.status = 400 => file' = file]_vars

\* C29: the upsert of a provider of type claude with a name and an apiKey and
\* without baseUrl, or with a blank one, is answered 200, and the provider is
\* stored with the baseUrl https://api.anthropic.com.
C29_AgentBaseUrlDefaults ==
    (last.op = "upsert" /\ last.id = <<"c">>) =>
        /\ last.status = 200
        /\ \E i \in 1..Len(file.cfg.providers) :
              /\ file.cfg.providers[i].id = <<"c">>
              /\ file.cfg.providers[i].baseUrl = DEFAULT_ANTHROPIC_BASE

\* C30: no step of the server changes the createdAt of a provider that is in
\* the store before and after the step.
C30_CreatedAtKept ==
    [][LET before == readWebUiConfig(file, idsMade).providers
           after == readWebUiConfig(file', idsMade').providers
       IN  \A i \in 1..Len(before), j \in 1..Len(after) :
              before[i].id = after[j].id =>
                  after[j].createdAt = before[i].createdAt]_vars

\* No two entries of the list have the same id.
UniqueIds(providers) ==
    \A i, j \in 1..Len(providers) : providers[i].id = providers[j].id => i = j

\* C31: the aggregate normalize returns holds no two providers with the same
\* id, whatever the ids of the aggregate it was given.
C31_NormalizeUniqueIds ==
    pure.pc \in {"once", "twice"} => UniqueIds(pure.once.providers)

----------------------------------------------------------------------------
(* setup-webui.sh and setup/verify.ts *)

\* A run of setup-webui.sh after its arguments were parsed: the options
\* --no-service and --skip-verify, and what the steps find on the machine:
\* service, the state of a service named easyteamclaw-webui; runtime, the
\* container runtime; credentials, allowlist and build as verify.ts reads them.
\* code is the exit code of the script, at is the step that ended it.
SetupRuns ==
    {[pc |-> "bootstrap", withService |-> w, skipVerify |-> v, service |-> s,
      runtime |-> r, credentials |-> c, allowlist |-> "missing",
      build |-> "missing", code |-> "none", at |-> "none"] :
        w \in BOOLEAN, v \in BOOLEAN,
        s \in {"not_found", "stopped", "running"},
        r \in {"none", "docker"}, c \in {"missing", "configured"}}

InitSetup ==
    /\ file = [kind |-> "absent", byProgram |-> FALSE, cfg |-> EmptyConfig]
    /\ idsMade = 0
    /\ server = Listening
    /\ refreshing = <<>>
    /\ last = Answer("boot", 0, Undef)
    /\ ledger = <<>>
    /\ chats = <<>>
    /\ session = Undef
    /\ pure \in SetupRuns

\* set -e and the ERR trap: a command that fails ends the script with exit 1.
SetupFails(step) == [pure EXCEPT !.pc = "exit", !.code = "1", !.at = step]

\* run_cmd bash setup.sh, then run_setup_step environment
StepBootstrap(ok) ==
    /\ pure.pc = "bootstrap"
    /\ pure' = IF ok THEN [pure EXCEPT !.pc = "environment"]
               ELSE SetupFails("bootstrap")
    /\ UNCHANGED <<storeVars, chatVars, server>>

StepEnvironment(ok) ==
    /\ pure.pc = "environment"
    /\ pure' = IF ok THEN [pure EXCEPT !.pc = "container"]
               ELSE SetupFails("environment")
    /\ UNCHANGED <<storeVars, chatVars, server>>

\* choose_runtime and run_setup_step container: without a runtime the step
\* fails.
StepContainer(ok) ==
    /\ pure.pc = "container"
    /\ pure' = IF ok /\ pure.runtime # "none" THEN [pure EXCEPT !.pc = "mounts"]
               ELSE SetupFails("container")
    /\ UNCHANGED <<storeVars, chatVars, server>>

\* run_setup_step mounts: the step writes the mount allowlist.
StepMounts(ok) ==
    /\ pure.pc = "mounts"
    /\ pure' = IF ok THEN [pure EXCEPT !.pc = "webui", !.allowlist = "configured"]
               ELSE SetupFails("mounts")
    /\ UNCHANGED <<storeVars, chatVars, server>>

\* run_setup_step webui: success when a runtime is there, npm run build
\* succeeded and left the three entry points.
StepWebui(buildOk) ==
    /\ pure.pc = "webui"
    /\ pure' = IF pure.runtime # "none" /\ buildOk
               THEN [pure EXCEPT !.pc = "service", !.build = "present"]
               ELSE SetupFails("webui")
    /\ UNCHANGED <<storeVars, chatVars, server>>

\* The service step: skipped with --no-service; else the step fails, or it
\* succeeds and leaves the service running, registered and stopped, or (the
\* nohup fallback) a start script only.
StepService(ok, after) ==
    /\ pure.pc = "service"
    /\ pure' = IF ~pure.withService THEN [pure EXCEPT !.pc = "verify"]
               ELSE IF ok THEN [pure EXCEPT !.pc = "verify", !.service = after]
               ELSE SetupFails("service")
    /\ UNCHANGED <<storeVars, chatVars, server>>

\* The status of verify.ts in webui mode.
VerifyStatus(run) ==
    IF /\ run.service = "running"
       /\ run.runtime # "none"
       /\ run.credentials # "missing"
       /\ run.allowlist # "missing"
       /\ run.build = "present"
    THEN "success" ELSE "failed"

\* The verify step: skipped with --skip-verify; run_setup_step fails when the
\* step exits 1 or reports a STATUS other than success.
StepVerify ==
    /\ pure.pc = "verify"
    /\ pure' = IF pure.skipVerify \/ VerifyStatus(pure) = "success"
               THEN [pure EXCEPT !.pc = "exit", !.code = "0"]
               ELSE SetupFails("verify")
    /\ UNCHANGED <<storeVars, chatVars, server>>

NextSetup ==
    \/ \E ok \in BOOLEAN : StepBootstrap(ok)
    \/ \E ok \in BOOLEAN : StepEnvironment(ok)
    \/ \E ok \in BOOLEAN : StepContainer(ok)
    \/ \E ok \in BOOLEAN : StepMounts(ok)
    \/ \E ok \in BOOLEAN : StepWebui(ok)
    \/ \E ok \in BOOLEAN, after \in {"running", "stopped", "not_found"} :
          StepService(ok, after)
    \/ StepVerify

SpecSetup == InitSetup /\ [][NextSetup]_vars

\* C32: a run with --no-service whose bootstrap, environment, container,
\* mounts and webui steps succeeded is not ended by the verify step when the
\* runtime, the credentials, the mount allowlist and the build are in place:
\* the verify step does not ask for a running service.
C32_NoServiceCompletes ==
    (/\ pure.pc = "exit"
     /\ ~pure.withService
     /\ pure.runtime # "none"
     /\ pure.credentials # "missing"
     /\ pure.allowlist # "missing"
     /\ pure.build = "present") => pure.code = "0"

\* C33: the web slot has no mutual exclusion.  An event that reports a session
\* identifier puts it in the registry whatever the registry held and whatever
\* the other exchanges are doing, and an event that reports none, the start
\* of an exchange and the end of one leave the registry as it is: the
\* registry holds the identifier of the event handled last.  At every moment
\* the registry holds the value it had before the first exchange or an
\* identifier that an event reported.
C33_SessionLastEventWins ==
    /\ [][/\ \A i \in 1..Len(chats) :
               chats'[i].events > chats[i].events =>
                   session' = IF chats'[i].newSessionId # chats[i].newSessionId
                              THEN chats'[i].newSessionId ELSE session
          /\ (\A i \in 1..Len(chats) : chats'[i].events = chats[i].events) =>
                   session' = session]_vars
    /\ [](chats # <<>> =>
            \/ session = chats[1].sessionId
            \/ \E j \in 1..Len(chats) : session = chats[j].newSessionId)

\* Two exchanges were started with the same identifier of an earlier run and
\* ran at the same time; the second to arrive ended first, and the registry
\* holds the identifier the first one reported.
C33_Witness ==
    /\ Len(chats) = 2
    /\ chats[1].sessionId = <<"s", "0">> /\ chats[2].sessionId = <<"s", "0">>
    /\ chats[1].pc = "agent" /\ chats[2].pc = "ok"
    /\ Truthy(chats[2].newSessionId)
    /\ Truthy(chats[1].newSessionId)
    /\ session = chats[1].newSessionId

\* C34: for a provider of type claude runChat hands the collaborator the
\* provider's defaultModel as model override when that is set and no override
\* when it is not, whatever the model of the request.
C34_AgentModelOverride ==
    (pure.pc = "called" /\ pure.input.provider.type = "claude") =>
        /\ pure.call.pc = "agent"
        /\ IF Truthy(pure.input.provider.defaultModel)
           THEN pure.call.model = pure.input.provider.defaultModel
           ELSE ~Truthy(pure.call.model)

\* name, baseUrl and apiKey of every entry are non-empty.
Complete(providers) ==
    \A i \in 1..Len(providers) :
        /\ providers[i].name # <<>>
        /\ providers[i].baseUrl # <<>>
        /\ providers[i].apiKey # <<>>

\* C35: every provider of the aggregate readWebUiConfig returns, and of the
\* aggregate a write left in the file, has a non-empty name, baseUrl and
\* apiKey; no models/refresh request and no chat request is answered
\* provider_not_ready.
C35_StoredProvidersReady ==
    /\ Complete(readWebUiConfig(file, idsMade).providers)
    /\ file.byProgram => Complete(file.cfg.providers)
    /\ ~(last.op = "refresh" /\ last.status = 400)
    /\ ~(last.op = "chat" /\ last.error = <<"provider_not_ready">>)

\* The file, not written by the program, holds a provider without apiKey; a
\* models/refresh request for it was answered 404, and a chat that named it
\* was served by another provider.
C35_Witness ==
    /\ ~file.byProgram
    /\ file.kind = "json"
    /\ ~Complete(file.cfg.providers)
    /\ last.op = "refresh" /\ last.id = UserId /\ last.status = 404
    /\ chats # <<>>

\* C36: an upsert that carries neither models nor defaultModel nor enabled
\* leaves the models, the defaultModel and the enabled flag of the provider it
\* updates as they were.
C36_UpsertKeepsOmitted ==
    [][(last'.op = "upsert" /\ last'.status = 200) =>
          LET before == readWebUiConfig(file, idsMade).providers
              after == readWebUiConfig(file', idsMade').providers
          IN  \A i \in 1..Len(before), j \in 1..Len(after) :
                 before[i].id = after[j].id =>
                     /\ after[j].models = before[i].models
                     /\ after[j].defaultModel = before[i].defaultModel
                     /\ after[j].enabled = before[i].enabled]_vars

\* C37: no step of a chat request, accepted or rejected, answered with a reply
\* or with an error, on the agent backend or on the HTTP path, with a model of
\* its own or without, changes the configuration file: the providers read
\* from it, their defaultModel and the defaultProviderId stay what they were.
C37_ChatKeepsConfig ==
    [][/\ file' = file
       /\ readWebUiConfig(file', idsMade') = readWebUiConfig(file, idsMade)]_vars

\* A chat for the agent backend carried the model "z" and ended with a reply;
\* the collaborator ran with "z", and the stored provider has no defaultModel.
C37_Witness ==
    \E i \in 1..Len(chats) :
        /\ chats[i].type = "claude" /\ chats[i].pc = "ok"
        /\ chats[i].model = <<"z">>
        /\ \E k \in 1..Len(file.cfg.providers) :
              /\ file.cfg.providers[k].type = "claude"
              /\ file.cfg.providers[k].defaultModel = Undef

\* C38: the step that completes a models/refresh leaves the aggregate a
\* request wrote during the upstream call as it is, but for the models of the
\* refreshed provider and for its defaultModel when that was unset: no
\* provider is added or removed, every other provider and the
\* defaultProviderId are unchanged, and the refreshed provider, if it is still
\* stored, keeps every other field.
C38_RefreshKeepsConcurrentChanges ==
    [][(last'.op = "refresh" /\ last'.status = 200 /\ file.byProgram) =>
          /\ file'.cfg.defaultProviderId = file.cfg.defaultProviderId
          /\ Len(file'.cfg.providers) = Len(file.cfg.providers)
          /\ \A k \in 1..Len(file.cfg.providers) :
                LET b == file.cfg.providers[k]
                    a == file'.cfg.providers[k]
                IN  IF b.id = last'.id
                    THEN a = [b EXCEPT
                                 !.models = a.models,
                                 !.defaultModel = IF Truthy(@) THEN @
                                                  ELSE a.defaultModel]
                    ELSE a = b]_vars

\* C39: in every aggregate the program wrote defaultProviderId is set exactly
\* when there are providers; an upsert into a store without providers makes
\* the upserted provider the default; and an upsert, or the deletion of a
\* provider other than the default, leaves a default that names a stored
\* provider as it is.
C39_DefaultSetIffProviders ==
    /\ [](file.byProgram =>
            (Truthy(file.cfg.defaultProviderId) <=> file.cfg.providers # <<>>))
    /\ [][LET before == readWebUiConfig(file, idsMade)
              after == file'.cfg
          IN  /\ (last'.op = "upsert" /\ last'.status = 200
                    /\ before.providers = <<>>) =>
                     after.defaultProviderId = last'.id
              /\ (/\ last'.status = 200
                  /\ \/ last'.op = "upsert"
                     \/ last'.op = "delete" /\ last'.id # before.defaultProviderId
                  /\ HasId(before.providers, before.defaultProviderId)) =>
                     after.defaultProviderId = before.defaultProviderId]_vars

----------------------------------------------------------------------------
(* skills-market.ts *)

\* The directory names a source or the skills directory may hold are
\* 1..MaxSkills, in the order readdirSync lists them.
MaxSkills == 2

\* A source directory: missing, or holding for each name nothing ("absent"), a
\* directory without SKILL.md ("plain") or one with SKILL.md ("skill").
SkillSources ==
    {[exists |-> FALSE, entries |-> [k \in 1..MaxSkills |-> "absent"]]}
        \cup {[exists |-> TRUE, entries |-> e] :
                e \in [1..MaxSkills -> {"absent", "plain", "skill"}]}

\* The loop of installSkillFromLocalPath, copying over a target that exists.
CopyEntriesOverwrites(entries, target, k) ==
    [target |-> [n \in 1..MaxSkills |->
                    IF n <= k /\ entries[n] = "skill" THEN "copied" ELSE target[n]],
     installed |-> SelectSeq([n \in 1..k |-> n], LAMBDA n : entries[n] = "skill"),
     skipped |-> <<>>]

\* The loop of installSkillFromLocalPath over the first k names: target maps a
\* name to what the skills directory holds under it, "absent", "old" (there
\* before any install) or "copied" (a copy of the source's directory).
RECURSIVE CopyEntries(_, _, _)
CopyEntries(entries, target, k) ==
    IF k = 0 THEN [target |-> target, installed |-> <<>>, skipped |-> <<>>]
    ELSE LET done == CopyEntries(entries, target, k - 1)
         IN  IF entries[k] # "skill" THEN done
             ELSE IF done.target[k] # "absent"
             THEN [done EXCEPT !.skipped = Append(@, k)]
             ELSE [done EXCEPT !.target[k] = "copied", !.installed = Append(@, k)]

\* installSkillFromLocalPath: what it returns or throws, and the skills
\* directory it leaves.
installSkillFromLocalPath(target, source) ==
    IF ~source.exists
    THEN [target |-> target, installed |-> <<>>, skipped |-> <<>>,
          error |-> <<"source_not_found:">>]
    ELSE LET done == CopyEntries(source.entries, target, MaxSkills)
         IN  [target |-> done.target, installed |-> done.installed,
              skipped |-> done.skipped, error |-> Undef]

\* installSkillFromGit: cloned, git clone succeeded and left source under
\* subPath of the temporary directory.  temp, the temporary directory that
\* mkdtempSync made exists when the function has returned or thrown: the
\* finally block removes it on both ways out of the try.
installSkillFromGit(target, cloned, source) ==
    LET tried == IF cloned THEN installSkillFromLocalPath(target, source)
                 ELSE [target |-> target, installed |-> <<>>, skipped |-> <<>>,
                       error |-> <<"Command failed: git clone">>]
    IN  [target |-> tried.target, installed |-> tried.installed,
         skipped |-> tried.skipped, error |-> tried.error, temp |-> FALSE]

InitSkills ==
    /\ file = [kind |-> "absent", byProgram |-> FALSE, cfg |-> EmptyConfig]
    /\ idsMade = 0
    /\ server = Listening
    /\ refreshing = <<>>
    /\ last = Answer("boot", 0, Undef)
    /\ ledger = <<>>
    /\ chats = <<>>
    /\ session = Undef
    /\ \E target \in [1..MaxSkills -> {"absent", "old"}] :
          pure = [op |-> "none", target |-> target, source |-> CHOOSE x \in SkillSources : ~x.exists,
                  installed |-> <<>>, skipped |-> <<>>, error |-> Undef, temp |-> FALSE]

\* A call of installSkillFromLocalPath.
InstallLocal(source) ==
    LET r == installSkillFromLocalPath(pure.target, source)
    IN  /\ pure' = [op |-> "local", target |-> r.target, source |-> source,
                    installed |-> r.installed, skipped |-> r.skipped,
                    error |-> r.error, temp |-> FALSE]
        /\ UNCHANGED <<storeVars, chatVars, server>>

\* A call of installSkillFromGit.
InstallGit(cloned, source) ==
    LET r == installSkillFromGit(pure.target, cloned, source)
    IN  /\ pure' = [op |-> "git", target |-> r.target, source |-> source,
                    installed |-> r.installed, skipped |-> r.skipped,
                    error |-> r.error, temp |-> r.temp]
        /\ UNCHANGED <<storeVars, chatVars, server>>

NextSkills ==
    \/ \E source \in SkillSources : InstallLocal(source)
    \/ \E cloned \in BOOLEAN, source \in SkillSources : InstallGit(cloned, source)

SpecSkills == InitSkills /\ [][NextSkills]_vars

\* The name k is in the list.
Listed(seq, k) == \E i \in 1..Len(seq) : seq[i] = k

\* C40: a call of installSkillFromLocalPath that returns reports every entry
\* of the source that holds a SKILL.md in exactly one of installed and
\* skipped, and nothing else; an entry is skipped exactly when the skills
\* directory held its name before the call, and then what it held is
\* untouched, as is every name the call did not install; a call that follows
\* a call that returned from the same source installs nothing and skips every
\* entry; and installSkillFromGit leaves no temporary directory, whether it
\* returns or throws.
C40_InstallNeverOverwrites ==
    /\ [][pure'.error = Undef =>
            /\ \A k \in 1..MaxSkills :
                  /\ pure'.source.entries[k] = "skill" =>
                        /\ Listed(pure'.installed, k) # Listed(pure'.skipped, k)
                        /\ Listed(pure'.skipped, k) <=> pure.target[k] # "absent"
                  /\ pure'.source.entries[k] # "skill" =>
                        ~Listed(pure'.installed, k) /\ ~Listed(pure'.skipped, k)
                  /\ ~Listed(pure'.installed, k) => pure'.target[k] = pure.target[k]
            /\ (pure.op # "none" /\ pure.error = Undef
                  /\ pure'.source = pure.source) =>
                   /\ pure'.installed = <<>>
                   /\ \A k \in 1..MaxSkills :
                         pure'.source.entries[k] = "skill" => Listed(pure'.skipped, k)]_vars
    /\ [](~pure.temp)

\* A call installed one entry and skipped another whose name the skills
\* directory already held, and left that one as it was.
C40_Witness ==
    /\ pure.op = "local" /\ pure.error = Undef
    /\ pure.installed = <<1>> /\ pure.skipped = <<2>>
    /\ pure.target[1] = "copied" /\ pure.target[2] = "old"

============================================================================
